---- MODULE Spec2Model ----
(***************************************************************************)
(* Reconciliation logic of the linode.cloud Ansible modules: one run of a  *)
(* module's exec_module against the state the control plane holds.         *)
(*                                                                         *)
(* A run is a sequence of steps over a machine record                      *)
(*   [params, remote, results, calls, loc, pc]                             *)
(* params  : self.module.params (the desired spec)                         *)
(* remote  : what the control plane holds                                  *)
(* results : self.results (changed, actions = the ledger)                  *)
(* calls   : the mutating remote calls issued so far, in order             *)
(* loc     : the local variables of the running handler                    *)
(* pc      : the position in the handler                                   *)
(* Every step of a handler is a pure operator on that record; the action   *)
(* of the step commits the record the operator returns.                    *)
(***************************************************************************)
EXTENDS Integers, Sequences, FiniteSets, TLC

VARIABLES module, params, remote, results, calls, loc, pc, run

vars == <<module, params, remote, results, calls, loc, pc, run>>

NULL == "null"

Cur ==
  [params |-> params, remote |-> remote, results |-> results,
   calls |-> calls, loc |-> loc, pc |-> pc]

Commit(n) ==
  /\ params' = n.params
  /\ remote' = n.remote
  /\ results' = n.results
  /\ calls' = n.calls
  /\ loc' = n.loc
  /\ pc' = n.pc
  /\ UNCHANGED <<module, run>>

NoResults == [changed |-> FALSE, actions |-> <<>>, msg |-> NULL]

(* The locals of a handler that is not inside a poll. *)
PollIdle == [waiting |-> FALSE, started |-> 0, deadline |-> 0]

Range(s) == {s[i] : i \in 1..Len(s)}

SeqsUpTo(S, n) == UNION {[1..k -> S] : k \in 0..n}

Min(S) == CHOOSE x \in S : \A y \in S : x <= y

Max(S) == CHOOSE x \in S : \A y \in S : x >= y

(***************************************************************************)
(* Action Ledger and the remote client                                     *)
(***************************************************************************)

(* LinodeModuleBase.register_action: append the entry, set changed. *)
register_action(m, entry) ==
  [m EXCEPT !.results.changed = TRUE, !.results.actions = Append(@, entry)]

(* A mutating call on the remote client, kept in issue order. *)
Call(m, c) == [m EXCEPT !.calls = Append(@, c)]

Goto(m, p) == [m EXCEPT !.pc = p]

(***************************************************************************)
(* Field Reconciler (linode_helper.handle_updates)                         *)
(***************************************************************************)

(* The supplied keys, in parameter order, whose value differs from the     *)
(* remote object's.                                                        *)
ChangedKeys(obj, new_params, keys) ==
  SelectSeq(keys, LAMBDA k :
    k \in DOMAIN new_params /\ k \in DOMAIN obj /\ new_params[k] # obj[k])

RECURSIVE RegisterUpdated(_, _, _, _, _)
RegisterUpdated(m, kind, obj, new_params, ks) ==
  IF ks = <<>> THEN m
  ELSE RegisterUpdated(
         register_action(m, [what |-> "Updated", kind |-> kind, id |-> 0,
                             arg |-> Head(ks)]),
         kind, obj, new_params, Tail(ks))

(* handle_updates: the differing supplied fields are staged, each gets a   *)
(* ledger entry, and one PUT carries them all. A differing field that is   *)
(* not mutable fails the run before anything is written.                   *)
(* Returns [m, obj, updated, failed].                                      *)
handle_updates(m, kind, obj, new_params, keys, mutable_fields) ==
  LET diff == ChangedKeys(obj, new_params, keys)
      put == SelectSeq(diff, LAMBDA k : k \in mutable_fields)
      upd == Range(put)
  IN IF Len(put) # Len(diff)
     THEN [m |-> m, obj |-> obj, updated |-> {}, failed |-> TRUE]
     ELSE IF put = <<>>
     THEN [m |-> m, obj |-> obj, updated |-> {}, failed |-> FALSE]
     ELSE [m |-> Call(RegisterUpdated(m, kind, obj, new_params, put),
                      [op |-> "update", kind |-> kind, id |-> 0, arg |-> upd]),
           obj |-> [k \in DOMAIN obj |-> IF k \in upd THEN new_params[k] ELSE obj[k]],
           updated |-> upd, failed |-> FALSE]

(***************************************************************************)
(* lke_cluster                                                             *)
(*                                                                         *)
(* params : label, k8s_version, node_pools, skip_polling, wait_timeout and,*)
(*          when supplied, tags, high_availability, acl. A parameter that  *)
(*          is None is absent from the record's domain.                    *)
(* A desired node pool is a record with type and count and, when supplied, *)
(* autoscaler, taints, labels.                                             *)
(* remote : exists, k8s_version, high_availability, tags, acl, next_id and *)
(*          pools, the node pools [id, type, count, autoscaler, taints,    *)
(*          labels] in the order the API lists them.                       *)
(***************************************************************************)

LKE_MUTABLE_FIELDS == {"tags"}

(* What the API gives a node-pool attribute the create call did not carry. *)
PoolDefault == 0

FirstIndex(S) == IF S = {} THEN 0 ELSE Min(S)

(* LKENodePool.save(): PUT of the pool object's fields. *)
PoolSave(m, p, fields) ==
  Call([m EXCEPT !.remote.pools =
          [i \in DOMAIN @ |-> IF @[i].id = p.id THEN p ELSE @[i]]],
       [op |-> "update", kind |-> "node_pool", id |-> p.id, arg |-> fields])

(* cluster.node_pool_create(type, count, autoscaler=pool.get("autoscaler")) *)
NodePoolCreate(m, pool) ==
  Call([m EXCEPT
          !.remote.pools = Append(@,
             [id |-> m.remote.next_id, type |-> pool.type, count |-> pool.count,
              autoscaler |-> IF "autoscaler" \in DOMAIN pool
                             THEN pool.autoscaler ELSE PoolDefault,
              taints |-> PoolDefault, labels |-> PoolDefault]),
          !.remote.next_id = @ + 1],
       [op |-> "create", kind |-> "node_pool", id |-> m.remote.next_id,
        arg |-> <<pool.type, pool.count>>])

(* pool.delete() *)
PoolDelete(m, p) ==
  Call([m EXCEPT !.remote.pools = SelectSeq(@, LAMBDA q : q.id # p.id)],
       [op |-> "delete", kind |-> "node_pool", id |-> p.id, arg |-> <<p.type, p.count>>])

(* An _update_cluster that deletes before it matches. *)
LkeAfterDeleteFirst(m, stage) ==
  IF stage = "put" /\ Len(m.loc.existing_pools) > 0 THEN "delete_pass"
  ELSE IF stage \in {"put", "delete_pass"} /\ Len(m.params.node_pools) > 0
  THEN "exact_pass"
  ELSE IF stage = "exact_pass" THEN "type_pass"
  ELSE IF m.params.skip_polling THEN "populate" ELSE "wait_nodes"

(* The position after a stage of _update_cluster: the first loop that     *)
(* follows and has an element, or the code after _update_cluster           *)
(* (_handle_present: the forced load, then the wait unless skip_polling).  *)
LkeAfter(m, stage) ==
  LET np == Len(m.params.node_pools)
      ne == Len(m.loc.existing_pools)
  IN IF stage = "put" /\ np > 0 THEN "exact_pass"
     ELSE IF stage \in {"put", "exact_pass"} /\ np > 0 THEN "type_pass"
     ELSE IF stage \in {"put", "exact_pass", "type_pass"} /\ ne > 0 THEN "delete_pass"
     ELSE IF m.params.skip_polling THEN "populate" ELSE "wait_nodes"

LkeAdvance(m, stage, n) ==
  IF m.loc.k < n THEN [m EXCEPT !.loc.k = @ + 1]
  ELSE [m EXCEPT !.loc.k = 1, !.pc = LkeAfter(m, stage)]

(* The first not-yet-kept remote pool with the desired count and type. *)
ExactMatchIndex(m, pool) ==
  FirstIndex({i \in 1..Len(m.loc.existing_pools) :
                /\ ~m.loc.should_keep[i]
                /\ m.loc.existing_pools[i].count = pool.count
                /\ m.loc.existing_pools[i].type = pool.type})

(* The first remote pool with the desired type, kept or not. *)
TypeMatchIndexAny(m, pool) ==
  FirstIndex({i \in 1..Len(m.loc.existing_pools) :
                m.loc.existing_pools[i].type = pool.type})

(* The first not-yet-kept remote pool with the desired type. *)
TypeMatchIndex(m, pool) ==
  FirstIndex({i \in 1..Len(m.loc.existing_pools) :
                /\ ~m.loc.should_keep[i]
                /\ m.loc.existing_pools[i].type = pool.type})

(* Exact-match pass, one attribute: register, assign, save. *)
ExactFieldUpdate(m, i, pool, f) ==
  IF f \in DOMAIN pool /\ m.loc.existing_pools[i][f] # pool[f]
  THEN LET m1 == register_action(m, [what |-> "Updated", kind |-> "node_pool",
                                     id |-> m.loc.existing_pools[i].id, arg |-> f])
           m2 == [m1 EXCEPT !.loc.existing_pools[i][f] = pool[f]]
       IN PoolSave(m2, m2.loc.existing_pools[i], {f})
  ELSE m

(* Type-match pass, one attribute: register and assign; the save follows.  *)
TypeFieldUpdate(m, k, pool, f) ==
  IF f \in DOMAIN pool /\ m.loc.existing_pools[k][f] # pool[f]
  THEN [register_action(m, [what |-> IF f = "count" THEN "Resized" ELSE "Updated",
                            kind |-> "node_pool",
                            id |-> m.loc.existing_pools[k].id, arg |-> f])
          EXCEPT !.loc.existing_pools[k][f] = pool[f],
                 !.loc.should_update = @ \cup {f}]
  ELSE m

(* A budget that is handed out whole to every wait. *)
seconds_remaining_fresh(m) == m.params.wait_timeout

(* The budget left: wait_timeout less the time since the run started.      *)
seconds_remaining(m) == m.params.wait_timeout - m.remote.now

Fail(m, why) == [m EXCEPT !.pc = "failed", !.results.msg = why]

(* _create_cluster: the ledger entry, then cluster_create with the         *)
(* parameters, the node pools among them as supplied.                      *)
lke_create_cluster(m) ==
  LET P == m.params
      m1 == register_action(m, [what |-> "Created", kind |-> "cluster", id |-> 0,
                                arg |-> P.label])
      newpools == [i \in 1..Len(P.node_pools) |->
                    LET pool == P.node_pools[i] IN
                    [id |-> m.remote.next_id + i - 1, type |-> pool.type,
                     count |-> pool.count,
                     autoscaler |-> IF "autoscaler" \in DOMAIN pool
                                    THEN pool.autoscaler ELSE PoolDefault,
                     taints |-> IF "taints" \in DOMAIN pool
                                THEN pool.taints ELSE PoolDefault,
                     labels |-> IF "labels" \in DOMAIN pool
                                THEN pool.labels ELSE PoolDefault]]
  IN Call([m1 EXCEPT
             !.remote.exists = TRUE,
             !.remote.k8s_version = P.k8s_version,
             !.remote.high_availability =
                IF "high_availability" \in DOMAIN P THEN P.high_availability ELSE FALSE,
             !.remote.tags = IF "tags" \in DOMAIN P THEN P.tags ELSE <<>>,
             !.remote.acl = IF "acl" \in DOMAIN P THEN P.acl ELSE m.remote.acl,
             !.remote.pools = newpools,
             !.remote.next_id = @ + Len(newpools)],
          [op |-> "create", kind |-> "cluster", id |-> 0, arg |-> P.label])

(* _handle_present up to the call of _update_cluster. *)
lke_handle_present(m) ==
  Goto(IF m.remote.exists THEN m ELSE lke_create_cluster(m), "handle_updates")

(* _update_cluster, first part: handle_updates over the create fields.     *)
lke_handle_updates(m) ==
  LET new_params == [k \in DOMAIN m.params \cap {"tags"} |-> m.params[k]]
      r == handle_updates(m, "cluster", [tags |-> m.remote.tags], new_params,
                          <<"tags">>, LKE_MUTABLE_FIELDS)
  IN IF r.failed THEN Fail(m, "non-updatable field")
     ELSE Goto([r.m EXCEPT !.remote.tags = r.obj.tags], "put_updates")

(* _attempt_update_acl; [] and null address lists are the same.            *)
NormalizeAcl(acl) ==
  IF "addresses" \in DOMAIN acl
  THEN [acl EXCEPT !.addresses =
          [v \in {"ipv4", "ipv6"} |->
             IF v \in DOMAIN acl.addresses THEN acl.addresses[v] ELSE <<>>]]
  ELSE acl

lke_attempt_update_acl(m) ==
  IF "acl" \notin DOMAIN m.params THEN m
  ELSE LET configured_acl == NormalizeAcl(m.params.acl)
           current_acl == [k \in DOMAIN m.remote.acl \cap {"enabled", "addresses"} |->
                             m.remote.acl[k]]
       IN IF configured_acl = current_acl THEN m
          ELSE Call([register_action(m, [what |-> "Updated", kind |-> "cluster", id |-> 0,
                                         arg |-> "acl"])
                       EXCEPT !.remote.acl = configured_acl @@ m.remote.acl],
                    [op |-> "update", kind |-> "cluster", id |-> 0, arg |-> {"acl"}])

(* The k8s version upgrade of _cluster_put_updates. *)
lke_version_upgrade(m) ==
  IF m.remote.k8s_version # m.params.k8s_version
  THEN register_action(
         Call([m EXCEPT !.remote.k8s_version = m.params.k8s_version],
              [op |-> "update", kind |-> "cluster", id |-> 0, arg |-> {"k8s_version"}]),
         [what |-> "Upgraded", kind |-> "cluster", id |-> 0, arg |-> "k8s_version"])
  ELSE m

(* The high-availability upgrade of _cluster_put_updates: a save. *)
lke_ha_upgrade(m) ==
  Call([m EXCEPT !.remote.high_availability = m.params.high_availability],
       [op |-> "update", kind |-> "cluster", id |-> 0, arg |-> {"control_plane"}])

(* _cluster_put_updates, then the snapshot of the pools that               *)
(* _update_cluster takes before its passes.                                *)
lke_cluster_put_updates(m) ==
  LET m1 == lke_version_upgrade(m)
      ha == /\ "high_availability" \in DOMAIN m.params
            /\ m1.remote.high_availability # m.params.high_availability
  IN IF ha /\ ~m.params.high_availability
     THEN Fail(m1, "Clusters cannot be downgraded from ha")
     ELSE LET m2 == IF ha THEN lke_ha_upgrade(m1) ELSE m1
              m3 == lke_attempt_update_acl(m2)
              m4 == [m3 EXCEPT !.loc =
                       PollIdle @@
                       [existing_pools |-> m3.remote.pools,
                        should_keep |-> [i \in 1..Len(m3.remote.pools) |-> FALSE],
                        pools_handled |-> [i \in 1..Len(m3.params.node_pools) |-> FALSE],
                        k |-> 1, should_update |-> {}, bound |-> {}]]
          IN Goto(m4, LkeAfter(m4, "put"))

(* _update_cluster, first loop, desired pool k: bind the first remote pool *)
(* not yet kept that has its count and type; each differing attribute is   *)
(* registered, assigned and saved on its own.                              *)
lke_exact_pass(m) ==
  LET k == m.loc.k
      pool == m.params.node_pools[k]
      i == ExactMatchIndex(m, pool)
      a == ExactFieldUpdate(m, i, pool, "autoscaler")
      b == ExactFieldUpdate(a, i, pool, "taints")
      c == ExactFieldUpdate(b, i, pool, "labels")
      n == IF i = 0 THEN m
           ELSE [c EXCEPT !.loc.pools_handled[k] = TRUE,
                          !.loc.should_keep[i] = TRUE,
                          !.loc.bound = @ \cup {<<k, i>>}]
  IN LkeAdvance(n, "exact_pass", Len(m.params.node_pools))

(* _update_cluster, second loop, desired pool i not handled by the first:  *)
(* bind the first remote pool not yet kept that has its type, resize and   *)
(* update it with one save; with no such pool, create one.                 *)
lke_type_pass(m) ==
  LET i == m.loc.k
      pool == m.params.node_pools[i]
      k == TypeMatchIndex(m, pool)
      a == TypeFieldUpdate(m, k, pool, "count")
      b == TypeFieldUpdate(a, k, pool, "autoscaler")
      c == TypeFieldUpdate(b, k, pool, "taints")
      d == TypeFieldUpdate(c, k, pool, "labels")
      e == IF d.loc.should_update # {}
           THEN PoolSave(d, d.loc.existing_pools[k], d.loc.should_update) ELSE d
      n == IF m.loc.pools_handled[i] THEN m
           ELSE IF k # 0
           THEN [e EXCEPT !.loc.should_keep[k] = TRUE,
                          !.loc.should_update = {},
                          !.loc.bound = @ \cup {<<i, k>>}]
           ELSE NodePoolCreate(
                  register_action(m, [what |-> "Created", kind |-> "node_pool", id |-> 0,
                                      arg |-> <<pool.type, pool.count>>]),
                  pool)
  IN LkeAdvance(n, "type_pass", Len(m.params.node_pools))

(* A last loop that deletes nothing. *)
lke_delete_pass_keeping(m) ==
  LkeAdvance(m, "delete_pass", Len(m.loc.existing_pools))

(* _update_cluster, last loop, remote pool i: delete it unless kept.       *)
lke_delete_pass(m) ==
  LET i == m.loc.k
      pool == m.loc.existing_pools[i]
      n == IF m.loc.should_keep[i] THEN m
           ELSE PoolDelete(
                  register_action(m, [what |-> "Deleted", kind |-> "node_pool",
                                      id |-> pool.id, arg |-> <<pool.type, pool.count>>]),
                  pool)
  IN LkeAdvance(n, "delete_pass", Len(m.loc.existing_pools))

(***************************************************************************)
(* Convergence Poller                                                      *)
(*                                                                         *)
(* remote.now is the time since the run started; remote.need[c] is the     *)
(* time condition c needs, from the start of the poll that waits for it,   *)
(* to hold. Evaluating a condition takes no time; only sleeping does.      *)
(***************************************************************************)

(* polling.poll(target, step=step, timeout=timeout), one evaluation of the *)
(* target: return when it holds, raise TimeoutException when the deadline  *)
(* has passed, sleep one step otherwise. The result's pc is onready,       *)
(* "timed_out", or unchanged while the poll sleeps.                        *)
poll(m, need, step, timeout, onready) ==
  LET started == IF m.loc.waiting THEN m.loc.started ELSE m.remote.now
      deadline == IF m.loc.waiting THEN m.loc.deadline ELSE m.remote.now + timeout
      idle == [m EXCEPT !.loc.waiting = FALSE, !.loc.started = 0, !.loc.deadline = 0]
  IN IF m.remote.now - started >= need
     THEN [idle EXCEPT !.pc = onready]
     ELSE IF m.remote.now >= deadline
     THEN [idle EXCEPT !.pc = "timed_out"]
     ELSE [m EXCEPT !.loc.waiting = TRUE, !.loc.started = started,
                    !.loc.deadline = deadline,
                    !.remote.now = @ + step, !.remote.slept = @ + step]

(* linode_helper.poll_condition: poll, a timeout fails the run. *)
poll_condition(m, need, step, timeout, onready) ==
  LET n == poll(m, need, step, timeout, onready)
  IN IF n.pc = "timed_out"
     THEN Fail(n, "failed to wait for condition: timeout period expired")
     ELSE n

LkeNodesStep == 4

LkeKubeconfigStep == 4

LkeDashboardStep == 1

(* A wait that goes on to the results when its time has run out. *)
lke_wait_for_all_nodes_ready_lenient(m) ==
  LET n == poll(m, m.remote.need.nodes, LkeNodesStep, seconds_remaining(m), "populate")
  IN IF n.pc = "timed_out" THEN Goto(n, "populate") ELSE n

(* _wait_for_all_nodes_ready(cluster, self._timeout_ctx.seconds_remaining) *)
lke_wait_for_all_nodes_ready(m) ==
  LET n == poll(m, m.remote.need.nodes, LkeNodesStep, seconds_remaining(m), "populate")
  IN IF n.pc = "timed_out"
     THEN Fail(n, "failed to wait for lke cluster: timeout period expired")
     ELSE n

(* The status the endpoint c (kubeconfig, dashboard) answers with now: 200 *)
(* once what it serves is there; before that 503, or remote.fault[c] from  *)
(* the time remote.fault.from on.                                          *)
LkeEndpointStatus(m, c) ==
  LET started == IF m.loc.waiting THEN m.loc.started ELSE m.remote.now
  IN IF m.remote.now - started >= m.remote.need[c] THEN 200
     ELSE IF m.remote.now >= m.remote.fault.from THEN m.remote.fault[c]
     ELSE 503

ApiErrorMsg(status) ==
  CASE status = 500 -> "ApiError 500"
    [] status = 404 -> "ApiError 404"
    [] OTHER -> "ApiError"

(* An ApiError the handler does not catch ends the run. *)
LkeRaise(m, status) ==
  Fail([m EXCEPT !.loc.waiting = FALSE, !.loc.started = 0, !.loc.deadline = 0],
       ApiErrorMsg(status))

(* A single read of the kubeconfig that lets a 503 through as an error. *)
lke_populate_kubeconfig_no_poll_strict(m) ==
  LET s == LkeEndpointStatus(m, "kubeconfig")
  IN IF s = 200 THEN [m EXCEPT !.results.kubeconfig = "kubeconfig"]
     ELSE LkeRaise(m, s)

(* _populate_kubeconfig_no_poll *)
lke_populate_kubeconfig_no_poll(m) ==
  LET s == LkeEndpointStatus(m, "kubeconfig")
  IN IF s = 200 THEN [m EXCEPT !.results.kubeconfig = "kubeconfig"]
     ELSE IF s # 503 THEN LkeRaise(m, s)
     ELSE [m EXCEPT !.results.kubeconfig = "Kubeconfig not yet available..."]

(* _populate_dashboard_url_no_poll *)
lke_populate_dashboard_url_no_poll(m) ==
  LET s == LkeEndpointStatus(m, "dashboard")
  IN IF s = 200 THEN [m EXCEPT !.results.dashboard_url = "dashboard_url", !.pc = "done"]
     ELSE IF s # 503 THEN LkeRaise(m, s)
     ELSE [m EXCEPT !.results.dashboard_url = "Dashboard URL not yet available...",
                    !.pc = "done"]

(* _populate_results up to the kubeconfig: the cluster and its node pools; *)
(* without polling, the kubeconfig and the dashboard URL are each read     *)
(* once, a placeholder standing in for one that is not there yet.          *)
lke_populate_results(m) ==
  LET m1 == [m EXCEPT !.results.cluster = m.params.label]
  IN IF m.params.skip_polling \/ m.params.state = "absent"
     THEN LET k == lke_populate_kubeconfig_no_poll(m1)
          IN IF k.pc = "failed" THEN k ELSE lke_populate_dashboard_url_no_poll(k)
     ELSE Goto(m1, "kubeconfig_poll")

(* A kubeconfig poll whose condition takes every error for "not yet". *)
lke_populate_kubeconfig_poll_swallowing(m) ==
  LET n == poll_condition(m, m.remote.need.kubeconfig, LkeKubeconfigStep,
                          seconds_remaining(m), "dashboard_poll")
  IN IF n.pc = "dashboard_poll" THEN [n EXCEPT !.results.kubeconfig = "kubeconfig"]
     ELSE n

(* _populate_kubeconfig_poll: the condition re-raises every ApiError but   *)
(* a 503, and poll_condition lets it through.                              *)
lke_populate_kubeconfig_poll(m) ==
  LET s == LkeEndpointStatus(m, "kubeconfig")
      n == poll_condition(m, m.remote.need.kubeconfig, LkeKubeconfigStep,
                          seconds_remaining(m), "dashboard_poll")
  IN IF s \notin {200, 503} THEN LkeRaise(m, s)
     ELSE IF n.pc = "dashboard_poll" THEN [n EXCEPT !.results.kubeconfig = "kubeconfig"]
     ELSE n

(* _populate_dashboard_url_poll *)
lke_populate_dashboard_url_poll(m) ==
  LET s == LkeEndpointStatus(m, "dashboard")
      n == poll_condition(m, m.remote.need.dashboard, LkeDashboardStep,
                          seconds_remaining(m), "done")
  IN IF s \notin {200, 503} THEN LkeRaise(m, s)
     ELSE IF n.pc = "done" THEN [n EXCEPT !.results.dashboard_url = "dashboard_url"]
     ELSE n

(***************************************************************************)
(* lke_cluster: inputs, actions, specification                             *)
(***************************************************************************)

MaxPools == 2

MaxDesiredPools == 2

NodeTypes == {"g6-standard-1", "g6-standard-2"}

NodeCounts == {1, 2}

PoolAttrNames == {"autoscaler", "taints", "labels"}

(* The attributes a desired pool supplies: any subset, with the value 1.   *)
DesiredPoolAttrs == UNION {[S -> {1}] : S \in SUBSET PoolAttrNames}

RemotePoolAttrs == {[a \in PoolAttrNames |-> v] : v \in {PoolDefault, 1}}

DesiredPoolLists ==
  {[i \in DOMAIN b |-> b[i] @@ da] :
     b \in SeqsUpTo([type : NodeTypes, count : NodeCounts], MaxDesiredPools),
     da \in DesiredPoolAttrs}

RemotePoolLists ==
  {[i \in DOMAIN b |-> [id |-> i] @@ b[i] @@ ra] :
     b \in SeqsUpTo([type : NodeTypes, count : NodeCounts], MaxPools),
     ra \in RemotePoolAttrs}

WaitTimeout == 10

NeedValues == {0, 3, 6, 15}

NoNeed == [nodes |-> 0, kubeconfig |-> 0, dashboard |-> 0]

NoFault == [kubeconfig |-> 503, dashboard |-> 503, from |-> 0]

LkeResults ==
  [changed |-> FALSE, actions |-> <<>>, msg |-> NULL,
   cluster |-> NULL, kubeconfig |-> NULL, dashboard_url |-> NULL]

LkeBaseParams ==
  [label |-> "cluster", state |-> "present", k8s_version |-> "1.31",
   skip_polling |-> TRUE, wait_timeout |-> WaitTimeout, node_pools |-> <<>>]

LkeBaseRemote ==
  [exists |-> TRUE, k8s_version |-> "1.31", high_availability |-> FALSE,
   tags |-> <<>>, acl |-> [enabled |-> FALSE], pools |-> <<>>, next_id |-> 1,
   now |-> 0, slept |-> 0, need |-> NoNeed, fault |-> NoFault]

LkeAclValues ==
  {[enabled |-> TRUE],
   [enabled |-> TRUE, addresses |-> [ipv4 |-> <<"10.0.0.1/32">>]]}

LkeRemoteAclValues ==
  {[enabled |-> FALSE],
   [enabled |-> TRUE, addresses |-> [ipv4 |-> <<"10.0.0.1/32">>, ipv6 |-> <<>>]]}

OnePool == [type |-> "g6-standard-1", count |-> 1]

(* Runs that differ in the node pools. *)
InitLkePools ==
  \E dp \in DesiredPoolLists, rp \in RemotePoolLists :
    /\ params = [LkeBaseParams EXCEPT !.node_pools = dp]
    /\ remote = [LkeBaseRemote EXCEPT !.pools = rp, !.next_id = Len(rp) + 1]

(* Runs that differ in the cluster's own fields. *)
InitLkeFields ==
  \E exists \in BOOLEAN, v \in {"1.31", "1.32"}, rha \in BOOLEAN,
     rtags \in {<<>>, <<"a">>}, racl \in LkeRemoteAclValues,
     opt \in SUBSET {"tags", "high_availability", "acl"},
     ha \in BOOLEAN, acl \in LkeAclValues :
    /\ params = [k \in opt |-> CASE k = "tags" -> <<"a">>
                                 [] k = "high_availability" -> ha
                                 [] k = "acl" -> acl]
                @@ [LkeBaseParams EXCEPT !.node_pools = <<OnePool>>]
    /\ ("high_availability" \notin opt => ha)
    /\ ("acl" \notin opt => acl = [enabled |-> TRUE])
    /\ remote = IF exists
                THEN [LkeBaseRemote EXCEPT
                        !.k8s_version = v, !.high_availability = rha,
                        !.tags = rtags, !.acl = racl,
                        !.pools = <<[id |-> 1] @@ OnePool @@
                                    [a \in PoolAttrNames |-> PoolDefault]>>,
                        !.next_id = 2]
                ELSE [LkeBaseRemote EXCEPT !.exists = FALSE]
    /\ (~exists => v = "1.31" /\ ~rha /\ rtags = <<>> /\ racl = [enabled |-> FALSE])

(* Runs that differ in what they wait for. *)
InitLkePoll ==
  \E need \in [{"nodes", "kubeconfig", "dashboard"} -> NeedValues],
     skip \in BOOLEAN :
    /\ params = [LkeBaseParams EXCEPT !.node_pools = <<OnePool>>, !.skip_polling = skip]
    /\ remote = [LkeBaseRemote EXCEPT
                   !.need = need,
                   !.pools = <<[id |-> 1] @@ OnePool @@
                               [a \in PoolAttrNames |-> PoolDefault]>>,
                   !.next_id = 2]

(* Runs whose kubeconfig or dashboard endpoint answers with an error.      *)
InitLkeFault ==
  \E nk \in {0, 6}, nd \in {0, 3}, sk \in {503, 500}, sd \in {503, 404},
     from \in {0, 4}, skip \in BOOLEAN :
    /\ params = [LkeBaseParams EXCEPT !.node_pools = <<OnePool>>, !.skip_polling = skip]
    /\ remote = [LkeBaseRemote EXCEPT
                   !.need = [nodes |-> 0, kubeconfig |-> nk, dashboard |-> nd],
                   !.fault = [kubeconfig |-> sk, dashboard |-> sd, from |-> from],
                   !.pools = <<[id |-> 1] @@ OnePool @@
                               [a \in PoolAttrNames |-> PoolDefault]>>,
                   !.next_id = 2]

InitLke ==
  /\ module = "lke_cluster"
  /\ InitLkePools \/ InitLkeFields \/ InitLkePoll \/ InitLkeFault
  /\ results = LkeResults
  /\ calls = <<>>
  /\ loc = PollIdle
  /\ pc = "start"
  /\ run = 1

LkeHandlePresent ==
  /\ module = "lke_cluster" /\ pc = "start"
  /\ Commit(lke_handle_present(Cur))

LkeHandleUpdates ==
  /\ module = "lke_cluster" /\ pc = "handle_updates"
  /\ Commit(lke_handle_updates(Cur))

LkeClusterPutUpdates ==
  /\ module = "lke_cluster" /\ pc = "put_updates"
  /\ Commit(lke_cluster_put_updates(Cur))

LkeExactPass ==
  /\ module = "lke_cluster" /\ pc = "exact_pass"
  /\ Commit(lke_exact_pass(Cur))

LkeTypePass ==
  /\ module = "lke_cluster" /\ pc = "type_pass"
  /\ Commit(lke_type_pass(Cur))

LkeDeletePass ==
  /\ module = "lke_cluster" /\ pc = "delete_pass"
  /\ Commit(lke_delete_pass(Cur))

LkeWaitForAllNodesReady ==
  /\ module = "lke_cluster" /\ pc = "wait_nodes"
  /\ Commit(lke_wait_for_all_nodes_ready(Cur))

LkePopulateResults ==
  /\ module = "lke_cluster" /\ pc = "populate"
  /\ Commit(lke_populate_results(Cur))

LkePopulateKubeconfigPoll ==
  /\ module = "lke_cluster" /\ pc = "kubeconfig_poll"
  /\ Commit(lke_populate_kubeconfig_poll(Cur))

LkePopulateDashboardUrlPoll ==
  /\ module = "lke_cluster" /\ pc = "dashboard_poll"
  /\ Commit(lke_populate_dashboard_url_poll(Cur))

(* The same task is run a second time, against what the first run left.    *)
LkeRunAgain ==
  /\ module = "lke_cluster" /\ pc = "done" /\ run = 1
  /\ run' = 2
  /\ pc' = "start"
  /\ results' = LkeResults
  /\ calls' = <<>>
  /\ loc' = PollIdle
  /\ remote' = [remote EXCEPT !.now = 0, !.slept = 0, !.need = NoNeed]
  /\ UNCHANGED <<module, params>>

NextLke ==
  \/ LkeHandlePresent
  \/ LkeHandleUpdates
  \/ LkeClusterPutUpdates
  \/ LkeExactPass
  \/ LkeTypePass
  \/ LkeDeletePass
  \/ LkeWaitForAllNodesReady
  \/ LkePopulateResults
  \/ LkePopulateKubeconfigPoll
  \/ LkePopulateDashboardUrlPoll
  \/ LkeRunAgain

SpecLke == InitLke /\ [][NextLke]_vars

(***************************************************************************)
(* firewall                                                                *)
(*                                                                         *)
(* params : label, state (present or update) and, when supplied, status,   *)
(*          tags, rules, devices. rules has, when supplied, inbound,       *)
(*          outbound (lists of rules), inbound_policy, outbound_policy; a  *)
(*          rule has label and action and, when supplied, addresses (ipv4, *)
(*          ipv6), description, ports, protocol.                           *)
(* remote : exists, status, tags, rules (both lists, both policies),       *)
(*          devices [id, entity_id, type] in the order the API lists them, *)
(*          next_id.                                                       *)
(***************************************************************************)

FW_MUTABLE_FIELDS == {"status", "tags"}

(* The keys of linode_firewall_rule_spec. *)
RuleFields == {"label", "action", "addresses", "description", "ports", "protocol"}

Directions == <<"inbound", "outbound">>

Policies == <<"inbound_policy", "outbound_policy">>

(* str(ipaddress.IPv4Network(v)), str(ipaddress.IPv6Network(v)): a bare    *)
(* address gets its full-length mask and IPv6 is written in lower case.    *)
NormalizeNetwork(v) ==
  CASE v = "10.0.0.1" -> "10.0.0.1/32"
    [] v = "2001:DB8::/32" -> "2001:db8::/32"
    [] OTHER -> v

(* _normalize_ips *)
fw_normalize_ips(rules) ==
  [i \in DOMAIN rules |->
     LET rule == rules[i] IN
     IF "addresses" \in DOMAIN rule
     THEN [rule EXCEPT !.addresses =
             [v \in DOMAIN rule.addresses |->
                [j \in DOMAIN rule.addresses[v] |->
                   NormalizeNetwork(rule.addresses[v][j])]]]
     ELSE rule]

(* local_labeled_rules[label]: the last local rule with the label, 0 for   *)
(* none.                                                                   *)
LabeledRule(local_rules, label) ==
  LET S == {j \in DOMAIN local_rules : local_rules[j].label = label}
  IN IF S = {} THEN 0 ELSE Max(S)

(* _amend_rules, the body for one remote rule that a local rule names: the *)
(* local rule takes the remote value of every field it lacks; the first    *)
(* time, it also takes the remote addresses of each family it lacks (a     *)
(* family neither has stays out, the None being filtered before the        *)
(* comparison).                                                            *)
AmendRule(local_rule, remote_rule, first) ==
  LET D == DOMAIN local_rule \cup (DOMAIN remote_rule \cap RuleFields)
      l1 == [f \in D |-> IF f \in DOMAIN local_rule THEN local_rule[f] ELSE remote_rule[f]]
      la == IF "addresses" \in DOMAIN l1 THEN l1.addresses ELSE <<>>
      ra == IF "addresses" \in DOMAIN remote_rule THEN remote_rule.addresses ELSE <<>>
      a2 == [v \in DOMAIN la \cup DOMAIN ra |-> IF v \in DOMAIN la THEN la[v] ELSE ra[v]]
  IN IF first
     THEN [f \in D \cup {"addresses"} |-> IF f = "addresses" THEN a2 ELSE l1[f]]
     ELSE l1

(* _amend_rules over the remote list. An entry of the remote list is a     *)
(* remote rule (ref = 0) or the local rule ref that _update_rules appended *)
(* to it, the same object as in the local list. store holds the local      *)
(* rules as amended so far, seen the ones amended at least once.           *)
RECURSIVE AmendFold(_, _, _, _, _)
AmendFold(entries, local_rules, store, seen, acc) ==
  IF entries = <<>> THEN [store |-> store, result |-> acc]
  ELSE LET e == Head(entries)
           val == IF e.ref = 0 THEN e.rule ELSE store[e.ref]
           j == LabeledRule(local_rules, val.label)
       IN IF j = 0
          THEN AmendFold(Tail(entries), local_rules, store, seen, Append(acc, e))
          ELSE AmendFold(Tail(entries), local_rules,
                         [store EXCEPT ![j] = AmendRule(store[j], val, j \notin seen)],
                         seen \cup {j}, Append(acc, [ref |-> j, rule |-> val]))

Deref(entries, store) ==
  [i \in DOMAIN entries |-> IF entries[i].ref = 0 THEN entries[i].rule
                            ELSE store[entries[i].ref]]

(* _update_rules for one direction (state = update): the local rules whose *)
(* label no remote rule has are appended to the remote list, then the      *)
(* local list becomes the remote list amended. Returns both lists.         *)
fw_update_rules_direction(remote_list, local_list) ==
  LET rlr == {remote_list[i].label : i \in DOMAIN remote_list}
      news == SelectSeq([j \in DOMAIN local_list |-> j],
                        LAMBDA j : local_list[j].label \notin rlr)
      entries == [i \in DOMAIN remote_list |-> [ref |-> 0, rule |-> remote_list[i]]]
                 \o [i \in DOMAIN news |-> [ref |-> news[i], rule |-> local_list[news[i]]]]
      f == AmendFold(entries, local_list, local_list, {}, <<>>)
  IN [remote |-> Deref(entries, f.store), local |-> Deref(f.result, f.store)]

(* An _update_rules that amends whatever the state. *)
fw_update_rules_amending(state, remote_rules, local_rules) ==
  [remote |-> [k \in DOMAIN remote_rules |->
                 IF k \in Range(Directions)
                 THEN fw_update_rules_direction(remote_rules[k], local_rules[k]).remote
                 ELSE remote_rules[k]],
   local |-> [k \in DOMAIN local_rules |->
                IF k \in Range(Directions)
                THEN fw_update_rules_direction(remote_rules[k], local_rules[k]).local
                ELSE local_rules[k]]]

(* _update_rules *)
fw_update_rules(state, remote_rules, local_rules) ==
  IF state # "update" THEN [remote |-> remote_rules, local |-> local_rules]
  ELSE LET d == [k \in Range(Directions) |->
                   fw_update_rules_direction(remote_rules[k], local_rules[k])]
       IN [remote |-> [k \in DOMAIN remote_rules |->
                         IF k \in Range(Directions) THEN d[k].remote
                         ELSE remote_rules[k]],
           local |-> [k \in DOMAIN local_rules |->
                        IF k \in Range(Directions) THEN d[k].local
                        ELSE local_rules[k]]]

(* _change_rules, the directions of a rule document normalised. *)
FwNormalizeRules(r) ==
  [k \in DOMAIN r \cup Range(Directions) |->
     IF k \in Range(Directions)
     THEN IF k \in DOMAIN r THEN fw_normalize_ips(r[k]) ELSE <<>>
     ELSE r[k]]

(* _change_rules, the end: the local rules, or none when they equal the    *)
(* remote rules.                                                           *)
FwDiffRules(local_rules, remote_rules) ==
  [changes |-> local_rules # remote_rules, rules |-> local_rules]

(* _change_rules, "Sync policy": a policy the local rules lack is the      *)
(* remote one.                                                             *)
FwSyncPolicy(u) ==
  FwDiffRules([k \in DOMAIN u.local \cup Range(Policies) |->
                 IF k \in DOMAIN u.local THEN u.local[k] ELSE u.remote[k]],
              u.remote)

(* _change_rules: the rules to write, or none. *)
fw_change_rules(P, remote_firewall_rules) ==
  FwSyncPolicy(
    fw_update_rules(
      P.state,
      FwNormalizeRules([k \in DOMAIN remote_firewall_rules \cap
                              (Range(Directions) \cup Range(Policies)) |->
                          remote_firewall_rules[k]]),
      FwNormalizeRules(IF "rules" \in DOMAIN P THEN P.rules ELSE <<>>)))

(* Firewall.update_rules(changes): the rules are replaced. *)
fw_put_rules(m, changes) ==
  register_action(
    Call([m EXCEPT !.remote.rules = changes],
         [op |-> "update", kind |-> "rules", id |-> 0, arg |-> {"rules"}]),
    [what |-> "Updated", kind |-> "rules", id |-> 0, arg |-> "rules"])

(* _create_firewall and the ledger entry of _handle_present. *)
fw_create_firewall(m) ==
  LET P == m.params
      r == IF "rules" \in DOMAIN P THEN P.rules ELSE <<>>
  IN register_action(
       Call([m EXCEPT
               !.remote.exists = TRUE,
               !.remote.status = "enabled",
               !.remote.tags = IF "tags" \in DOMAIN P THEN P.tags ELSE <<>>,
               !.remote.rules =
                  [k \in Range(Directions) \cup Range(Policies) |->
                     IF k \in DOMAIN r THEN r[k]
                     ELSE IF k \in Range(Directions) THEN <<>> ELSE "ACCEPT"],
               !.remote.devices = <<>>],
            [op |-> "create", kind |-> "firewall", id |-> 0, arg |-> P.label]),
       [what |-> "Created", kind |-> "firewall", id |-> 0, arg |-> P.label])

(* _handle_present up to the call of _update_firewall. *)
fw_handle_present(m) ==
  Goto(IF m.remote.exists THEN m ELSE fw_create_firewall(m), "handle_updates")

(* The insertion of a key into a dict kept as a list of [key, value]: a    *)
(* key already there keeps its place and takes the new value.              *)
DictPut(d, key, value) ==
  IF \E i \in DOMAIN d : d[i].key = key
  THEN [i \in DOMAIN d |-> IF d[i].key = key THEN [key |-> key, value |-> value] ELSE d[i]]
  ELSE Append(d, [key |-> key, value |-> value])

RECURSIVE DictOf(_, _)
DictOf(items, d) ==
  IF items = <<>> THEN d
  ELSE DictOf(Tail(items), DictPut(d, Head(items).key, Head(items).value))

DictHas(d, key) == \E i \in DOMAIN d : d[i].key = key

DictGet(d, key) == (CHOOSE e \in Range(d) : e.key = key).value

DictDel(d, key) == SelectSeq(d, LAMBDA e : e.key # key)

(* The position after a stage of _update_devices. *)
FwAfterDevices(m, stage) ==
  IF stage = "start" /\ Len(m.params.devices) > 0 THEN "devices"
  ELSE IF stage # "unused_devices" /\ Len(m.loc.device_map) > 0 THEN "unused_devices"
  ELSE "api_get"

FwGotoDevices(m) == Goto(m, FwAfterDevices(m, "start"))

(* _update_firewall, the devices: with none supplied nothing is done;      *)
(* otherwise _update_devices starts from the map of the remote devices by  *)
(* entity id.                                                              *)
FwStartDevices(m) ==
  IF "devices" \notin DOMAIN m.params THEN Goto(m, "api_get")
  ELSE FwGotoDevices(
         [m EXCEPT !.loc =
            [k |-> 1, bound |-> {},
             device_map |->
               DictOf([i \in DOMAIN m.remote.devices |->
                         [key |-> m.remote.devices[i].entity_id,
                          value |-> m.remote.devices[i]]], <<>>)]])

(* _update_firewall, the rules: written and recorded when they changed.    *)
FwWriteRules(m, c) ==
  FwStartDevices(IF c.changes THEN fw_put_rules(m, c.rules) ELSE m)

FwUpdateRules(m) == FwWriteRules(m, fw_change_rules(m.params, m.remote.rules))

(* _update_firewall, after handle_updates. *)
FwAfterFields(m, r) ==
  IF r.failed THEN Fail(m, "non-updatable field")
  ELSE FwUpdateRules([r.m EXCEPT !.remote.status = r.obj.status,
                                 !.remote.tags = r.obj.tags])

(* _update_firewall *)
fw_update_firewall(m) ==
  FwAfterFields(
    m,
    handle_updates(m, "firewall",
                   [status |-> m.remote.status, tags |-> m.remote.tags],
                   [k \in DOMAIN m.params \cap FW_MUTABLE_FIELDS |-> m.params[k]],
                   <<"status", "tags">>, FW_MUTABLE_FIELDS))

(* FirewallDevice.delete(): the API has no such device once it is deleted. *)
fw_device_delete_call(m, device) ==
  LET c == Call(m, [op |-> "delete", kind |-> "device", id |-> device.id,
                    arg |-> <<device.entity_id, device.type>>])
  IN IF \E i \in DOMAIN m.remote.devices : m.remote.devices[i].id = device.id
     THEN [c EXCEPT !.remote.devices = SelectSeq(@, LAMBDA d : d.id # device.id)]
     ELSE Fail(c, "ApiError 404")

(* _delete_device: the ledger entry, then the call. *)
fw_delete_device(m, device) ==
  fw_device_delete_call(
    register_action(m, [what |-> "Deleted", kind |-> "device", id |-> device.id,
                        arg |-> <<device.entity_id, device.type>>]),
    device)

(* _create_device: the call, then the ledger entry. *)
fw_create_device(m, device_id, device_type) ==
  register_action(
    Call([m EXCEPT
            !.remote.devices = Append(@, [id |-> m.remote.next_id,
                                          entity_id |-> device_id,
                                          type |-> device_type]),
            !.remote.next_id = @ + 1],
         [op |-> "create", kind |-> "device", id |-> m.remote.next_id,
          arg |-> <<device_id, device_type>>]),
    [what |-> "Created", kind |-> "device", id |-> m.remote.next_id,
     arg |-> <<device_id, device_type>>])

(* The end of one turn of a loop of _update_devices over a list of n.     *)
FwLoopNext(m, r, n, stage) ==
  IF r.pc = "failed" THEN r
  ELSE IF m.loc.k < n THEN [r EXCEPT !.loc.k = @ + 1]
  ELSE [r EXCEPT !.loc.k = 1, !.pc = FwAfterDevices(r, stage)]

(* _update_devices, "Recreate the device if the fields don't match".       *)
FwCreateAfterDelete(d, device) ==
  IF d.pc = "failed" THEN d ELSE fw_create_device(d, device.id, device.type)

(* A device loop that keeps the device of a supplied entity id whatever   *)
(* its type.                                                               *)
FwMatchedDeviceKept(m, device, old) ==
  [m EXCEPT !.loc.device_map = DictDel(@, device.id),
            !.loc.bound = @ \cup {<<m.loc.k, old.id>>}]

(* _update_devices, an entity id that is in the map: kept (and taken out   *)
(* of the map) when the type is the same, else deleted and created.        *)
FwMatchedDevice(m, device, old) ==
  IF old.type = device.type
  THEN [m EXCEPT !.loc.device_map = DictDel(@, device.id),
                 !.loc.bound = @ \cup {<<m.loc.k, old.id>>}]
  ELSE FwCreateAfterDelete(
         fw_delete_device([m EXCEPT !.loc.bound = @ \cup {<<m.loc.k, old.id>>}], old),
         device)

(* _update_devices, the body of the first loop. *)
FwOneDevice(m, device) ==
  IF DictHas(m.loc.device_map, device.id)
  THEN FwMatchedDevice(m, device, DictGet(m.loc.device_map, device.id))
  ELSE fw_create_device(m, device.id, device.type)

(* _update_devices, first loop, desired device k. *)
fw_update_devices(m) ==
  FwLoopNext(m, FwOneDevice(m, m.params.devices[m.loc.k]),
             Len(m.params.devices), "devices")

(* _update_devices, last loop: the devices left in the map are deleted.    *)
(* The map is the one the first loop left.                                 *)
fw_delete_unused_devices(m) ==
  FwLoopNext(m, fw_delete_device(m, m.loc.device_map[m.loc.k].value),
             Len(m.loc.device_map), "unused_devices")

(* _handle_present after _update_firewall: the results. *)
fw_api_get(m) ==
  [m EXCEPT !.results.firewall = m.params.label, !.pc = "done"]

(* ----- firewall: the runs checked ----- *)

MaxRules == 2

MaxDevices == 2

DesiredRules ==
  {p @@ [label |-> l, action |-> "ACCEPT"] :
     l \in {"a", "b"},
     p \in {<<>>, [ports |-> "80"],
            [addresses |-> [ipv4 |-> <<"10.0.0.1">>]],
            [ports |-> "80", addresses |-> [ipv4 |-> <<"10.0.0.1">>]]}}

RemoteRules ==
  {[label |-> l, action |-> "ACCEPT", ports |-> q, protocol |-> "TCP",
    addresses |-> [ipv4 |-> <<"10.0.0.1/32">>]] :
     l \in {"a", "c"}, q \in {"80", "8080"}}

DeviceTypes == {"linode", "nodebalancer"}

DesiredDevices == [id : {1, 2}, type : DeviceTypes]

(* The devices of a firewall: each entity at most once, ids in order.      *)
RemoteDeviceLists ==
  {[i \in DOMAIN ds |-> [id |-> i, entity_id |-> ds[i].id, type |-> ds[i].type]] :
     ds \in {d \in SeqsUpTo(DesiredDevices, MaxDevices) :
               \A i, j \in DOMAIN d : i # j => d[i] # d[j]}}

FwResults ==
  [changed |-> FALSE, actions |-> <<>>, msg |-> NULL, firewall |-> NULL]

FwNoLoc == [k |-> 1, bound |-> {}, device_map |-> <<>>]

FwBaseParams == [label |-> "fw", state |-> "present"]

FwBaseRemote ==
  [exists |-> TRUE, status |-> "enabled", tags |-> <<>>,
   rules |-> [inbound |-> <<>>, outbound |-> <<>>,
              inbound_policy |-> "ACCEPT", outbound_policy |-> "ACCEPT"],
   devices |-> <<>>, next_id |-> 1]

(* Runs that differ in the inbound rules. *)
InitFwRules ==
  \E state \in {"present", "update"},
     dl \in SeqsUpTo(DesiredRules, MaxRules),
     rl \in SeqsUpTo(RemoteRules, MaxRules) :
    /\ params = [FwBaseParams EXCEPT !.state = state] @@ [rules |-> [inbound |-> dl]]
    /\ remote = [FwBaseRemote EXCEPT !.rules.inbound = rl]

(* Runs that differ in the policies and in the outbound rules. *)
InitFwPolicy ==
  \E state \in {"present", "update"}, exists \in BOOLEAN,
     ks \in SUBSET {"inbound", "outbound", "inbound_policy", "outbound_policy"},
     rp \in {"ACCEPT", "DROP"},
     ro \in SeqsUpTo({[label |-> "c", action |-> "ACCEPT", ports |-> "22"]}, 1) :
    /\ params = [FwBaseParams EXCEPT !.state = state] @@
                [rules |-> [k \in ks |->
                   CASE k = "inbound" -> <<>>
                     [] k = "outbound" -> <<[label |-> "b", action |-> "ACCEPT"]>>
                     [] OTHER -> "DROP"]]
    /\ remote = IF exists
                THEN [FwBaseRemote EXCEPT !.rules.outbound = ro,
                                          !.rules.inbound_policy = rp,
                                          !.rules.outbound_policy = rp]
                ELSE [FwBaseRemote EXCEPT !.exists = FALSE]
    /\ (~exists => rp = "ACCEPT" /\ ro = <<>>)

ScenarioDesired ==
  <<[label |-> "a", action |-> "ACCEPT", ports |-> "80"],
    [label |-> "b", action |-> "ACCEPT", ports |-> "443"]>>

ScenarioRemote ==
  <<[label |-> "a", action |-> "ACCEPT", ports |-> "8080"],
    [label |-> "c", action |-> "ACCEPT", ports |-> "22"]>>

(* The run of desired rules a:80, b:443 against remote rules a:8080, c:22. *)
InitFwScenario ==
  \E state \in {"present", "update"} :
    /\ params = [FwBaseParams EXCEPT !.state = state] @@
                [rules |-> [inbound |-> ScenarioDesired]]
    /\ remote = [FwBaseRemote EXCEPT !.rules.inbound = ScenarioRemote]

(* Runs that differ in the devices. *)
InitFwDevices ==
  \E dd \in SeqsUpTo(DesiredDevices, MaxDevices), rd \in RemoteDeviceLists :
    /\ params = FwBaseParams @@ [devices |-> dd]
    /\ remote = [FwBaseRemote EXCEPT !.devices = rd, !.next_id = Len(rd) + 1]

(* Runs that differ in the firewall's own fields. *)
InitFwFields ==
  \E exists \in BOOLEAN, opt \in SUBSET {"status", "tags"},
     st \in {"enabled", "disabled"}, rtags \in {<<>>, <<"a">>} :
    /\ params = [k \in opt |->
                   CASE k = "status" -> st [] k = "tags" -> <<"a">>]
                @@ FwBaseParams
    /\ ("status" \notin opt => st = "enabled")
    /\ remote = IF exists THEN [FwBaseRemote EXCEPT !.tags = rtags]
                ELSE [FwBaseRemote EXCEPT !.exists = FALSE]
    /\ (~exists => rtags = <<>>)

(* Runs whose spec leaves out the rules, the devices or both, against a    *)
(* firewall that has rules and a device.                                   *)
InitFwAbsent ==
  \E state \in {"present", "update"}, ks \in SUBSET {"rules", "devices"},
     rl \in SeqsUpTo(RemoteRules, 1), rd \in RemoteDeviceLists :
    /\ params = [FwBaseParams EXCEPT !.state = state] @@
                [k \in ks |-> IF k = "rules" THEN [inbound |-> rl] ELSE <<>>]
    /\ Len(rd) <= 1
    /\ remote = [FwBaseRemote EXCEPT !.rules.inbound = rl, !.devices = rd,
                                     !.next_id = Len(rd) + 1]

InitFw ==
  /\ module = "firewall"
  /\ \/ InitFwRules \/ InitFwPolicy \/ InitFwScenario \/ InitFwDevices
     \/ InitFwFields \/ InitFwAbsent
  /\ results = FwResults
  /\ calls = <<>>
  /\ loc = FwNoLoc
  /\ pc = "start"
  /\ run = 1

FwHandlePresent ==
  /\ module = "firewall" /\ pc = "start"
  /\ Commit(fw_handle_present(Cur))

FwUpdateFirewall ==
  /\ module = "firewall" /\ pc = "handle_updates"
  /\ Commit(fw_update_firewall(Cur))

FwUpdateDevices ==
  /\ module = "firewall" /\ pc = "devices"
  /\ Commit(fw_update_devices(Cur))

FwDeleteUnusedDevices ==
  /\ module = "firewall" /\ pc = "unused_devices"
  /\ Commit(fw_delete_unused_devices(Cur))

FwApiGet ==
  /\ module = "firewall" /\ pc = "api_get"
  /\ Commit(fw_api_get(Cur))

(* The same task is run a second time, against what the first run left.    *)
FwRunAgain ==
  /\ module = "firewall" /\ pc = "done" /\ run = 1
  /\ run' = 2
  /\ pc' = "start"
  /\ results' = FwResults
  /\ calls' = <<>>
  /\ loc' = FwNoLoc
  /\ UNCHANGED <<module, params, remote>>

NextFw ==
  \/ FwHandlePresent
  \/ FwUpdateFirewall
  \/ FwUpdateDevices
  \/ FwDeleteUnusedDevices
  \/ FwApiGet
  \/ FwRunAgain

SpecFw == InitFw /\ [][NextFw]_vars

(***************************************************************************)
(* nodebalancer                                                            *)
(*                                                                         *)
(* params : label, state and, when supplied, client_conn_throttle, tags,   *)
(*          configs. A desired config is a record with recreate and, when  *)
(*          supplied, port, algorithm, nodes; a desired node has label and *)
(*          address.                                                       *)
(* remote : exists, client_conn_throttle, tags, next_id, configs (records  *)
(*          [id, port, algorithm]) and nodes (records [id, config_id,      *)
(*          label, address]).                                              *)
(* loc    : to_create and to_update, lists of [config, remote] (remote is  *)
(*          the id of the remote config found for the desired config, 0    *)
(*          for none), to_delete (the remote configs left in the set, in   *)
(*          its iteration order), k; for _handle_config_nodes cfg, the     *)
(*          new_nodes, node_map, nk and ret, the loop to go back to.       *)
(*          node_bound records, for the properties, the remote node each   *)
(*          desired node (config, place) was found to be.                  *)
(***************************************************************************)
NB_MUTABLE_FIELDS == {"client_conn_throttle", "tags"}

(* dict_select_matching: both dicts cut down to the keys they share.       *)
dict_select_matching(a, b) ==
  <<[k \in DOMAIN a \cap DOMAIN b |-> a[k]], [k \in DOMAIN a \cap DOMAIN b |-> b[k]]>>

(* config_match == remote_config_match, node_match == remote_node_match:   *)
(* the two dicts that dict_select_matching returned are equal.             *)
SelectedEqual(x) == x[1] = x[2]

(* _check_config_exists: the first config of the target set, in its        *)
(* iteration order, that agrees with the desired config on every key they  *)
(* share, ssl_cert and ssl_key aside; 0 for none.                          *)
nb_check_config_exists(target, config) ==
  FirstIndex({j \in DOMAIN target :
    SelectedEqual(dict_select_matching(
      [k \in DOMAIN config \ {"ssl_cert", "ssl_key"} |-> config[k]], target[j]))})

(* A first loop whose kept config stays in the set that is searched.       *)
NbClassifyOneShared(acc, i, config, j) ==
  IF j = 0
  THEN [acc EXCEPT !.to_create = Append(@, [config |-> i, remote |-> 0])]
  ELSE IF config.recreate
  THEN [acc EXCEPT !.to_create = Append(@, [config |-> i, remote |-> acc.to_delete[j].id])]
  ELSE [acc EXCEPT !.to_update = Append(@, [config |-> i, remote |-> acc.to_delete[j].id])]

(* _handle_configs, the body of the first loop for a config that was       *)
(* found at place j of the remote set (0: not found).                      *)
NbClassifyOne(acc, i, config, j) ==
  IF j = 0
  THEN [acc EXCEPT !.to_create = Append(@, [config |-> i, remote |-> 0])]
  ELSE IF config.recreate
  THEN [acc EXCEPT !.to_create = Append(@, [config |-> i, remote |-> acc.to_delete[j].id])]
  ELSE [acc EXCEPT !.to_update = Append(@, [config |-> i, remote |-> acc.to_delete[j].id]),
                   !.to_delete = SelectSeq(@, LAMBDA r : r.id # acc.to_delete[j].id)]

(* _handle_configs, the first loop from desired config i on. to_delete is  *)
(* the set remote_configs itself.                                          *)
RECURSIVE NbClassify(_, _, _)
NbClassify(new_configs, i, acc) ==
  IF i > Len(new_configs) THEN acc
  ELSE NbClassify(new_configs, i + 1,
                  NbClassifyOne(acc, i, new_configs[i],
                                nb_check_config_exists(acc.to_delete, new_configs[i])))

NbAt(m, p, k) == [m EXCEPT !.pc = p, !.loc.k = k]

(* The third loop of _handle_configs from entry k on, then the results.    *)
NbSeekUpdate(m, k) ==
  IF k <= Len(m.loc.to_update) THEN NbAt(m, "update_configs", k)
  ELSE [m EXCEPT !.pc = "done", !.results.node_balancer = m.params.label]

(* The second loop of _handle_configs from entry k on. *)
NbSeekCreate(m, k) ==
  IF k <= Len(m.loc.to_create) THEN NbAt(m, "create_configs", k)
  ELSE NbSeekUpdate(m, 1)

(* A _handle_configs that goes on to the creations without deleting. *)
NbSeekDeleteSkipped(m, k) == NbSeekCreate(m, 1)

(* The loop "Remove remaining configs" from entry k on. *)
NbSeekDelete(m, k) ==
  IF k <= Len(m.loc.to_delete) THEN NbAt(m, "delete_configs", k)
  ELSE NbSeekCreate(m, 1)

(* The return of _handle_config_nodes to the loop that called it. *)
NbNext(m) ==
  IF m.loc.ret = "create_configs" THEN NbSeekCreate(m, m.loc.k + 1)
  ELSE NbSeekUpdate(m, m.loc.k + 1)

(* The last loop of _handle_config_nodes from entry nk on. *)
NbSeekUnusedNode(m, nk) ==
  IF nk <= Len(m.loc.node_map) THEN [m EXCEPT !.pc = "unused_nodes", !.loc.nk = nk]
  ELSE NbNext(m)

(* The loop of _handle_config_nodes over new_nodes from entry nk on. *)
NbSeekNode(m, nk) ==
  IF nk <= Len(m.loc.new_nodes) THEN [m EXCEPT !.pc = "nodes", !.loc.nk = nk]
  ELSE NbSeekUnusedNode(m, 1)

(* _handle_config_nodes, the start: the map of the config's nodes by label.*)
nb_handle_config_nodes(m, cfg, new_nodes, ret) ==
  NbSeekNode(
    [m EXCEPT !.loc.cfg = cfg, !.loc.new_nodes = new_nodes, !.loc.ret = ret,
              !.loc.node_map =
                 DictOf(SelectSeq([i \in DOMAIN m.remote.nodes |->
                                     [key |-> m.remote.nodes[i].label,
                                      value |-> m.remote.nodes[i]]],
                                  LAMBDA e : e.value.config_id = cfg), <<>>)],
    1)

(* _create_nodebalancer and the ledger entry of _handle_nodebalancer.      *)
nb_create_nodebalancer(m) ==
  register_action(
    Call([m EXCEPT
            !.remote.exists = TRUE,
            !.remote.client_conn_throttle =
               IF "client_conn_throttle" \in DOMAIN m.params
               THEN m.params.client_conn_throttle ELSE 0,
            !.remote.tags = IF "tags" \in DOMAIN m.params THEN m.params.tags ELSE <<>>],
         [op |-> "create", kind |-> "nodebalancer", id |-> 0, arg |-> m.params.label]),
    [what |-> "Created", kind |-> "nodebalancer", id |-> 0, arg |-> m.params.label])

(* _update_nodebalancer, after handle_updates. *)
NbAfterFields(m, r) ==
  IF r.failed THEN Fail(m, "non-updatable field")
  ELSE Goto([r.m EXCEPT !.remote.client_conn_throttle = r.obj.client_conn_throttle,
                        !.remote.tags = r.obj.tags],
            "handle_configs")

(* _update_nodebalancer *)
nb_update_nodebalancer(m) ==
  NbAfterFields(
    m,
    handle_updates(m, "nodebalancer",
                   [client_conn_throttle |-> m.remote.client_conn_throttle,
                    tags |-> m.remote.tags],
                   [k \in DOMAIN m.params \cap NB_MUTABLE_FIELDS |-> m.params[k]],
                   <<"client_conn_throttle", "tags">>, NB_MUTABLE_FIELDS))

(* _handle_nodebalancer *)
nb_handle_nodebalancer(m) ==
  IF m.remote.exists THEN nb_update_nodebalancer(m)
  ELSE Goto(nb_create_nodebalancer(m), "handle_configs")

(* _handle_configs, the first loop. *)
NbClassified(m, acc) ==
  NbSeekDelete([m EXCEPT !.loc.to_create = acc.to_create,
                         !.loc.to_update = acc.to_update,
                         !.loc.to_delete = acc.to_delete], 1)

nb_handle_configs(m) ==
  NbClassified(m, NbClassify(IF "configs" \in DOMAIN m.params THEN m.params.configs
                             ELSE <<>>,
                             1,
                             [to_create |-> <<>>, to_update |-> <<>>,
                              to_delete |-> m.remote.configs]))

(* NodeBalancerConfig.delete(): the config goes, and its nodes with it.    *)
nb_config_delete_call(m, config) ==
  IF \E i \in DOMAIN m.remote.configs : m.remote.configs[i].id = config.id
  THEN Call([m EXCEPT !.remote.configs = SelectSeq(@, LAMBDA c : c.id # config.id),
                      !.remote.nodes = SelectSeq(@, LAMBDA n : n.config_id # config.id)],
            [op |-> "delete", kind |-> "config", id |-> config.id, arg |-> "config"])
  ELSE Fail(Call(m, [op |-> "delete", kind |-> "config", id |-> config.id,
                     arg |-> "config"]),
            "ApiError 404")

(* _delete_config_register: the ledger entry, then the call. *)
nb_delete_config_register(m, config) ==
  nb_config_delete_call(
    register_action(m, [what |-> "Deleted", kind |-> "config", id |-> config.id,
                        arg |-> "config"]),
    config)

(* The loop "Remove remaining configs", entry k. *)
NbAfterDelete(m, r) == IF r.pc = "failed" THEN r ELSE NbSeekDelete(r, m.loc.k + 1)

nb_delete_remaining_config(m) ==
  NbAfterDelete(m, nb_delete_config_register(m, m.loc.to_delete[m.loc.k]))

(* A config as the API keeps it: the fields left out take their defaults.  *)
NbStoredConfig(id, config) ==
  [id |-> id,
   port |-> IF "port" \in DOMAIN config THEN config.port ELSE 80,
   algorithm |-> IF "algorithm" \in DOMAIN config THEN config.algorithm
                 ELSE "roundrobin"]

(* _create_config_register: the call, then the ledger entry. *)
nb_create_config_register(m, config) ==
  register_action(
    Call([m EXCEPT !.remote.configs = Append(@, NbStoredConfig(m.remote.next_id, config)),
                   !.remote.next_id = @ + 1],
         [op |-> "create", kind |-> "config", id |-> m.remote.next_id, arg |-> "config"]),
    [what |-> "Created", kind |-> "config", id |-> m.remote.next_id, arg |-> "config"])

(* The second loop of _handle_configs, after the creation of the config    *)
(* with the id new_id.                                                     *)
NbAfterCreate(m, r, config, new_id) ==
  IF "nodes" \in DOMAIN config
  THEN nb_handle_config_nodes(r, new_id, config.nodes, "create_configs")
  ELSE NbSeekCreate(r, m.loc.k + 1)

(* The second loop of _handle_configs, entry k. *)
nb_create_config(m) ==
  NbAfterCreate(m,
                nb_create_config_register(m, m.params.configs[m.loc.to_create[m.loc.k].config]),
                m.params.configs[m.loc.to_create[m.loc.k].config],
                m.remote.next_id)

(* The third loop of _handle_configs, entry k. *)
NbUpdateOne(m, config, remote_config) ==
  IF "nodes" \in DOMAIN config
  THEN nb_handle_config_nodes(m, remote_config, config.nodes, "update_configs")
  ELSE NbSeekUpdate(m, m.loc.k + 1)

nb_update_config(m) ==
  NbUpdateOne(m, m.params.configs[m.loc.to_update[m.loc.k].config],
              m.loc.to_update[m.loc.k].remote)

(* NodeBalancerNode.delete() *)
nb_node_delete_call(m, node) ==
  IF \E i \in DOMAIN m.remote.nodes : m.remote.nodes[i].id = node.id
  THEN Call([m EXCEPT !.remote.nodes = SelectSeq(@, LAMBDA n : n.id # node.id)],
            [op |-> "delete", kind |-> "node", id |-> node.id, arg |-> node.label])
  ELSE Fail(Call(m, [op |-> "delete", kind |-> "node", id |-> node.id,
                     arg |-> node.label]),
            "ApiError 404")

(* _delete_node_register: the ledger entry, then the call. *)
nb_delete_node_register(m, node) ==
  nb_node_delete_call(
    register_action(m, [what |-> "Deleted", kind |-> "node", id |-> node.id,
                        arg |-> node.label]),
    node)

(* _create_node_register: the call, then the ledger entry. *)
nb_create_node_register(m, cfg, node) ==
  register_action(
    Call([m EXCEPT !.remote.nodes =
                      Append(@, [id |-> m.remote.next_id, config_id |-> cfg,
                                 label |-> node.label, address |-> node.address]),
                   !.remote.next_id = @ + 1],
         [op |-> "create", kind |-> "node", id |-> m.remote.next_id, arg |-> node.label]),
    [what |-> "Created", kind |-> "node", id |-> m.remote.next_id, arg |-> node.label])

(* _handle_config_nodes, the creation that follows a deletion. *)
NbCreateAfterDelete(d, node) ==
  IF d.pc = "failed" THEN d ELSE nb_create_node_register(d, d.loc.cfg, node)

(* _handle_config_nodes, a label that is in the map: the node is kept (and *)
(* taken out of the map) when it agrees with the remote node on every key  *)
(* they share, else the remote node is deleted and the node created.       *)
NbMatchedNode(m, node, old) ==
  IF SelectedEqual(dict_select_matching(node, old))
  THEN [m EXCEPT !.loc.node_map = DictDel(@, node.label),
                 !.loc.node_bound = @ \cup {<<<<m.loc.cfg, m.loc.nk>>, old.id>>}]
  ELSE NbCreateAfterDelete(
         nb_delete_node_register(
           [m EXCEPT !.loc.node_bound = @ \cup {<<<<m.loc.cfg, m.loc.nk>>, old.id>>}], old),
         node)

(* _handle_config_nodes, the body of the loop over new_nodes. *)
NbOneNode(m, node) ==
  IF DictHas(m.loc.node_map, node.label)
  THEN NbMatchedNode(m, node, DictGet(m.loc.node_map, node.label))
  ELSE nb_create_node_register(m, m.loc.cfg, node)

NbAfterNode(m, r) == IF r.pc = "failed" THEN r ELSE NbSeekNode(r, m.loc.nk + 1)

(* _handle_config_nodes, the loop over new_nodes, entry nk. *)
nb_handle_node(m) == NbAfterNode(m, NbOneNode(m, m.loc.new_nodes[m.loc.nk]))

NbAfterUnusedNode(m, r) ==
  IF r.pc = "failed" THEN r ELSE NbSeekUnusedNode(r, m.loc.nk + 1)

(* _handle_config_nodes, the last loop, entry nk of the map as the loop    *)
(* over new_nodes left it.                                                 *)
nb_delete_unused_node(m) ==
  NbAfterUnusedNode(m, nb_delete_node_register(m, m.loc.node_map[m.loc.nk].value))

(* ----- nodebalancer: the runs checked ----- *)

MaxConfigs == 2

MaxNodes == 2

Ports == {80, 443}

DesiredConfigs ==
  {p @@ a @@ [recreate |-> r] :
     p \in {<<>>} \cup {[port |-> q] : q \in Ports},
     a \in {<<>>, [algorithm |-> "roundrobin"]},
     r \in BOOLEAN}

(* The configs of a NodeBalancer: one at most for a port.                  *)
RemoteConfigLists ==
  {[i \in DOMAIN cs |-> [id |-> i] @@ cs[i]] :
     cs \in {c \in SeqsUpTo([port : Ports, algorithm : {"roundrobin", "leastconn"}],
                            MaxConfigs) :
               \A i, j \in DOMAIN c : i # j => c[i].port # c[j].port}}

NodeValues == [label : {"n1", "n2"}, address : {"10.0.0.1:80", "10.0.0.2:80"}]

NbResults ==
  [changed |-> FALSE, actions |-> <<>>, msg |-> NULL, node_balancer |-> NULL]

NbNoLoc ==
  [to_create |-> <<>>, to_update |-> <<>>, to_delete |-> <<>>, k |-> 1,
   cfg |-> 0, new_nodes |-> <<>>, node_map |-> <<>>, node_bound |-> {},
   nk |-> 1, ret |-> NULL]

NbBaseParams == [label |-> "nb", state |-> "present"]

NbBaseRemote ==
  [exists |-> TRUE, client_conn_throttle |-> 0, tags |-> <<>>,
   configs |-> <<>>, nodes |-> <<>>, next_id |-> 1]

(* Runs that differ in the configs. *)
InitNbConfigs ==
  \E dc \in SeqsUpTo(DesiredConfigs, MaxConfigs), rc \in RemoteConfigLists,
     withnodes \in BOOLEAN, raddr \in {"10.0.0.1:80", "10.0.0.2:80"} :
    /\ (~withnodes => raddr = "10.0.0.1:80")
    /\ params = NbBaseParams @@
                [configs |-> [i \in DOMAIN dc |->
                   IF withnodes
                   THEN dc[i] @@ [nodes |-> <<[label |-> "n1", address |-> "10.0.0.1:80"]>>]
                   ELSE dc[i]]]
    /\ remote = [NbBaseRemote EXCEPT
                   !.configs = rc,
                   !.nodes = IF withnodes
                             THEN [i \in DOMAIN rc |->
                                     [id |-> Len(rc) + i, config_id |-> i,
                                      label |-> "n1", address |-> raddr]]
                             ELSE <<>>,
                   !.next_id = IF withnodes THEN 2 * Len(rc) + 1 ELSE Len(rc) + 1]

(* Runs that differ in the nodes of one config. *)
InitNbNodes ==
  \E dn \in SeqsUpTo(NodeValues, MaxNodes), rn \in SeqsUpTo(NodeValues, MaxNodes),
     recreate \in BOOLEAN :
    /\ params = NbBaseParams @@
                [configs |-> <<[port |-> 80, recreate |-> recreate, nodes |-> dn]>>]
    /\ remote = [NbBaseRemote EXCEPT
                   !.configs = <<[id |-> 1, port |-> 80, algorithm |-> "roundrobin"]>>,
                   !.nodes = [i \in DOMAIN rn |-> [id |-> 1 + i, config_id |-> 1] @@ rn[i]],
                   !.next_id = Len(rn) + 2]

(* Runs that differ in the NodeBalancer's own fields. *)
InitNbFields ==
  \E exists \in BOOLEAN, opt \in SUBSET {"client_conn_throttle", "tags", "configs"},
     rt \in {0, 5}, rtags \in {<<>>, <<"a">>} :
    /\ params = [k \in opt |-> CASE k = "client_conn_throttle" -> 5
                                 [] k = "tags" -> <<"a">>
                                 [] k = "configs" -> <<>>]
                @@ NbBaseParams
    /\ remote = IF exists
                THEN [NbBaseRemote EXCEPT !.client_conn_throttle = rt, !.tags = rtags]
                ELSE [NbBaseRemote EXCEPT !.exists = FALSE]
    /\ (~exists => rt = 0 /\ rtags = <<>>)

InitNb ==
  /\ module = "nodebalancer"
  /\ InitNbConfigs \/ InitNbNodes \/ InitNbFields
  /\ results = NbResults
  /\ calls = <<>>
  /\ loc = NbNoLoc
  /\ pc = "start"
  /\ run = 1

NbHandleNodebalancer ==
  /\ module = "nodebalancer" /\ pc = "start"
  /\ Commit(nb_handle_nodebalancer(Cur))

NbHandleConfigs ==
  /\ module = "nodebalancer" /\ pc = "handle_configs"
  /\ Commit(nb_handle_configs(Cur))

NbDeleteRemainingConfig ==
  /\ module = "nodebalancer" /\ pc = "delete_configs"
  /\ Commit(nb_delete_remaining_config(Cur))

NbCreateConfig ==
  /\ module = "nodebalancer" /\ pc = "create_configs"
  /\ Commit(nb_create_config(Cur))

NbUpdateConfig ==
  /\ module = "nodebalancer" /\ pc = "update_configs"
  /\ Commit(nb_update_config(Cur))

NbHandleNode ==
  /\ module = "nodebalancer" /\ pc = "nodes"
  /\ Commit(nb_handle_node(Cur))

NbDeleteUnusedNode ==
  /\ module = "nodebalancer" /\ pc = "unused_nodes"
  /\ Commit(nb_delete_unused_node(Cur))

(* The same task is run a second time, against what the first run left.    *)
NbRunAgain ==
  /\ module = "nodebalancer" /\ pc = "done" /\ run = 1
  /\ run' = 2
  /\ pc' = "start"
  /\ results' = NbResults
  /\ calls' = <<>>
  /\ loc' = NbNoLoc
  /\ UNCHANGED <<module, params, remote>>

NextNb ==
  \/ NbHandleNodebalancer
  \/ NbHandleConfigs
  \/ NbDeleteRemainingConfig
  \/ NbCreateConfig
  \/ NbUpdateConfig
  \/ NbHandleNode
  \/ NbDeleteUnusedNode
  \/ NbRunAgain

SpecNb == InitNb /\ [][NextNb]_vars

(***************************************************************************)
(* user                                                                    *)
(*                                                                         *)
(* params : username, state, restricted and, when supplied, grants: a      *)
(*          record with, when supplied, global (a record of the global     *)
(*          grants) and resources (a list of [type, id, permissions]).     *)
(* remote : exists, restricted and grants, the grant document: global and, *)
(*          for each category, the list of [id, label, permissions] of     *)
(*          every entity of the account (permissions NULL: no grant).      *)
(* A global sub-object that is None is the empty record: both are false in *)
(* _merge_grants and both differ from every remote global in               *)
(* _compare_grants.                                                        *)
(***************************************************************************)
USER_MUTABLE_FIELDS == {"restricted"}

(* _normalize_grants_params, the entries of one type. *)
GrantsOfType(resources, t) ==
  [i \in DOMAIN SelectSeq(resources, LAMBDA r : r.type = t) |->
     [id |-> SelectSeq(resources, LAMBDA r : r.type = t)[i].id,
      permissions |-> SelectSeq(resources, LAMBDA r : r.type = t)[i].permissions]]

NormalizedGrants(glob, resources) ==
  [k \in {"global"} \cup {resources[i].type : i \in DOMAIN resources} |->
     IF k = "global" THEN glob ELSE GrantsOfType(resources, k)]

(* _normalize_grants_params *)
user_normalize_grants_params(grants) ==
  NormalizedGrants(IF "global" \in DOMAIN grants THEN grants.global ELSE <<>>,
                   IF "resources" \in DOMAIN grants THEN grants.resources ELSE <<>>)

(* _compare_grants, the entries of a remote list that grant something.     *)
NonNullGrants(resource) == SelectSeq(resource, LAMBDA g : g.permissions # NULL)

(* _compare_grants *)
user_compare_grants(old_grants, new_grants) ==
  new_grants =
    [k \in {"global"} \cup {c \in DOMAIN old_grants \ {"global"} :
                              NonNullGrants(old_grants[c]) # <<>>} |->
       IF k = "global" THEN old_grants.global ELSE NonNullGrants(old_grants[k])]

(* new_grant_map[key][id]: the place of the last desired grant of the      *)
(* category with the id, 0 for none.                                       *)
NewGrantIndex(param_grants, key, id) ==
  IF key \in DOMAIN param_grants
  THEN Max({0} \cup {j \in DOMAIN param_grants[key] : param_grants[key][j].id = id})
  ELSE 0

(* A merge that leaves the unlisted grants as they are. *)
MergedGrantKeeping(param_grants, key, grant, j) ==
  IF j # 0 THEN param_grants[key][j]
  ELSE [id |-> grant.id, permissions |-> grant.permissions]

(* _merge_grants, the entry that replaces a remote grant. *)
MergedGrant(param_grants, key, grant, j) ==
  IF j # 0 THEN param_grants[key][j] ELSE [id |-> grant.id, permissions |-> NULL]

(* A merge whose global section falls back on the remote one. *)
user_merge_grants_global_kept(old_grants, param_grants) ==
  [k \in DOMAIN old_grants \cup {"global"} |->
     IF k = "global"
     THEN IF param_grants.global # <<>> THEN param_grants.global ELSE old_grants.global
     ELSE [i \in DOMAIN old_grants[k] |->
             MergedGrant(param_grants, k, old_grants[k][i],
                         NewGrantIndex(param_grants, k, old_grants[k][i].id))]]

(* _merge_grants *)
user_merge_grants(old_grants, param_grants) ==
  [k \in DOMAIN old_grants \cup {"global"} |->
     IF k = "global"
     THEN IF param_grants.global # <<>> THEN param_grants.global ELSE <<>>
     ELSE [i \in DOMAIN old_grants[k] |->
             MergedGrant(param_grants, k, old_grants[k][i],
                         NewGrantIndex(param_grants, k, old_grants[k][i].id))]]

(* PUT /account/users/{id}/grants: the document is replaced; the entities  *)
(* keep their labels, and a global grant the body lacks keeps its value.   *)
GrantsAfterPut(old_grants, put_body) ==
  [k \in DOMAIN old_grants |->
     IF k = "global"
     THEN [f \in DOMAIN old_grants.global |->
             IF f \in DOMAIN put_body.global THEN put_body.global[f]
             ELSE old_grants.global[f]]
     ELSE [i \in DOMAIN old_grants[k] |->
             [old_grants[k][i] EXCEPT !.permissions = put_body[k][i].permissions]]]

user_put_grants(m, put_body) ==
  register_action(
    Call([m EXCEPT !.remote.grants = GrantsAfterPut(@, put_body),
                   !.loc.put_body = put_body,
                   !.loc.old_grants = m.remote.grants],
         [op |-> "update", kind |-> "grants", id |-> 0, arg |-> {"grants"}]),
    [what |-> "Updated", kind |-> "grants", id |-> 0, arg |-> "grants"])

(* _update_grants, once the desired grants are normalised: the remote      *)
(* document is read (raw_grants), compared and, when it differs, replaced. *)
UserCompareAndPut(m, param_grants) ==
  IF user_compare_grants(m.remote.grants, param_grants)
  THEN [m EXCEPT !.loc.old_grants = m.remote.grants]
  ELSE user_put_grants(m, user_merge_grants(m.remote.grants, param_grants))

(* An _update_grants that does not look at restricted. *)
user_update_grants_unrestricted_too(m) ==
  [(IF "grants" \notin DOMAIN m.params THEN m
    ELSE UserCompareAndPut(m, user_normalize_grants_params(m.params.grants)))
   EXCEPT !.pc = "done", !.results.user = m.params.username]

(* _update_grants, then the results of _handle_present. *)
user_update_grants(m) ==
  [(IF "grants" \notin DOMAIN m.params \/ ~m.params.restricted THEN m
    ELSE UserCompareAndPut(m, user_normalize_grants_params(m.params.grants)))
   EXCEPT !.pc = "done", !.results.user = m.params.username]

(* _create_user and the ledger entry of _handle_present. *)
user_create_user(m) ==
  register_action(
    Call([m EXCEPT !.remote.exists = TRUE, !.remote.restricted = m.params.restricted],
         [op |-> "create", kind |-> "user", id |-> 0, arg |-> m.params.username]),
    [what |-> "Created", kind |-> "user", id |-> 0, arg |-> m.params.username])

(* _update_user, after handle_updates. *)
UserAfterFields(m, r) ==
  IF r.failed THEN Fail(m, "non-updatable field")
  ELSE Goto([r.m EXCEPT !.remote.restricted = r.obj.restricted], "update_grants")

(* _update_user *)
user_update_user(m) ==
  UserAfterFields(
    m,
    handle_updates(m, "user", [restricted |-> m.remote.restricted],
                   [restricted |-> m.params.restricted],
                   <<"restricted">>, USER_MUTABLE_FIELDS))

(* _handle_present up to _update_grants. *)
user_handle_present(m) ==
  user_update_user(IF m.remote.exists THEN m ELSE user_create_user(m))

(* ----- user: the runs checked ----- *)

MaxGrants == 2

Permissions == {"read_only", "read_write"}

GrantCategories == {"linode", "domain"}

GlobalValues ==
  [account_access : {NULL, "read_only"}, add_linodes : BOOLEAN]

ResourceGrants == [type : GrantCategories, id : {1, 2}, permissions : Permissions]

(* The grant documents of an account with the Linodes 1 and 2 and the      *)
(* domain 1.                                                               *)
RemoteGrantDocs ==
  {[global |-> g,
    linode |-> <<[id |-> 1, label |-> "linode1", permissions |-> p1],
                 [id |-> 2, label |-> "linode2", permissions |-> p2]>>,
    domain |-> <<[id |-> 1, label |-> "example.org", permissions |-> p3]>>] :
     g \in {[account_access |-> NULL, add_linodes |-> FALSE],
            [account_access |-> "read_only", add_linodes |-> TRUE]},
     p1 \in Permissions \cup {NULL}, p2 \in Permissions \cup {NULL},
     p3 \in Permissions \cup {NULL}}

NoGrantDoc ==
  [global |-> [account_access |-> NULL, add_linodes |-> FALSE],
   linode |-> <<[id |-> 1, label |-> "linode1", permissions |-> NULL],
                [id |-> 2, label |-> "linode2", permissions |-> NULL]>>,
   domain |-> <<[id |-> 1, label |-> "example.org", permissions |-> NULL]>>]

UserResults ==
  [changed |-> FALSE, actions |-> <<>>, msg |-> NULL, user |-> NULL]

(* loc records, for the properties, the document that was PUT and the one  *)
(* it replaced.                                                            *)
UserNoLoc == [put_body |-> <<>>, old_grants |-> <<>>]

UserBaseParams == [username |-> "user", state |-> "present", restricted |-> TRUE]

(* Runs that differ in the grants. *)
InitUserGrants ==
  \E gk \in SUBSET {"global", "resources"},
     g \in {[account_access |-> NULL, add_linodes |-> FALSE],
            [account_access |-> "read_only", add_linodes |-> TRUE]},
     rs \in SeqsUpTo(ResourceGrants, MaxGrants), doc \in RemoteGrantDocs :
    /\ ("global" \notin gk => g.add_linodes)
    /\ ("resources" \notin gk => rs = <<>>)
    /\ params = UserBaseParams @@
                [grants |-> [k \in gk |-> IF k = "global" THEN g ELSE rs]]
    /\ remote = [exists |-> TRUE, restricted |-> TRUE, grants |-> doc]

(* Runs that differ in the user and in restricted. *)
InitUserFields ==
  \E exists \in BOOLEAN, restricted \in BOOLEAN, rr \in BOOLEAN,
     withgrants \in BOOLEAN, doc \in {NoGrantDoc} :
    /\ params = IF withgrants
                THEN [UserBaseParams EXCEPT !.restricted = restricted] @@
                     [grants |-> [resources |->
                        <<[type |-> "linode", id |-> 1, permissions |-> "read_only"]>>]]
                ELSE [UserBaseParams EXCEPT !.restricted = restricted]
    /\ remote = [exists |-> exists, restricted |-> rr, grants |-> doc]
    /\ (~exists => rr)

InitUser ==
  /\ module = "user"
  /\ InitUserGrants \/ InitUserFields
  /\ results = UserResults
  /\ calls = <<>>
  /\ loc = UserNoLoc
  /\ pc = "start"
  /\ run = 1

UserHandlePresent ==
  /\ module = "user" /\ pc = "start"
  /\ Commit(user_handle_present(Cur))

UserUpdateGrants ==
  /\ module = "user" /\ pc = "update_grants"
  /\ Commit(user_update_grants(Cur))

(* The same task is run a second time, against what the first run left.    *)
UserRunAgain ==
  /\ module = "user" /\ pc = "done" /\ run = 1
  /\ run' = 2
  /\ pc' = "start"
  /\ results' = UserResults
  /\ calls' = <<>>
  /\ loc' = UserNoLoc
  /\ UNCHANGED <<module, params, remote>>

NextUser ==
  \/ UserHandlePresent
  \/ UserUpdateGrants
  \/ UserRunAgain

SpecUser == InitUser /\ [][NextUser]_vars

(***************************************************************************)
(* All modules: a run of any one of them.                                  *)
(***************************************************************************)
Init == InitLke \/ InitFw \/ InitNb \/ InitUser

Next == NextLke \/ NextFw \/ NextNb \/ NextUser

Spec == Init /\ [][Next]_vars

(* The step a module takes at a position. *)
Step(mod, m) ==
  CASE mod = "lke_cluster" /\ m.pc = "start" -> lke_handle_present(m)
    [] mod = "lke_cluster" /\ m.pc = "handle_updates" -> lke_handle_updates(m)
    [] mod = "lke_cluster" /\ m.pc = "put_updates" -> lke_cluster_put_updates(m)
    [] mod = "lke_cluster" /\ m.pc = "exact_pass" -> lke_exact_pass(m)
    [] mod = "lke_cluster" /\ m.pc = "type_pass" -> lke_type_pass(m)
    [] mod = "lke_cluster" /\ m.pc = "delete_pass" -> lke_delete_pass(m)
    [] mod = "lke_cluster" /\ m.pc = "wait_nodes" -> lke_wait_for_all_nodes_ready(m)
    [] mod = "lke_cluster" /\ m.pc = "populate" -> lke_populate_results(m)
    [] mod = "lke_cluster" /\ m.pc = "kubeconfig_poll" -> lke_populate_kubeconfig_poll(m)
    [] mod = "lke_cluster" /\ m.pc = "dashboard_poll" -> lke_populate_dashboard_url_poll(m)
    [] mod = "firewall" /\ m.pc = "start" -> fw_handle_present(m)
    [] mod = "firewall" /\ m.pc = "handle_updates" -> fw_update_firewall(m)
    [] mod = "firewall" /\ m.pc = "devices" -> fw_update_devices(m)
    [] mod = "firewall" /\ m.pc = "unused_devices" -> fw_delete_unused_devices(m)
    [] mod = "firewall" /\ m.pc = "api_get" -> fw_api_get(m)
    [] mod = "nodebalancer" /\ m.pc = "start" -> nb_handle_nodebalancer(m)
    [] mod = "nodebalancer" /\ m.pc = "handle_configs" -> nb_handle_configs(m)
    [] mod = "nodebalancer" /\ m.pc = "delete_configs" -> nb_delete_remaining_config(m)
    [] mod = "nodebalancer" /\ m.pc = "create_configs" -> nb_create_config(m)
    [] mod = "nodebalancer" /\ m.pc = "update_configs" -> nb_update_config(m)
    [] mod = "nodebalancer" /\ m.pc = "nodes" -> nb_handle_node(m)
    [] mod = "nodebalancer" /\ m.pc = "unused_nodes" -> nb_delete_unused_node(m)
    [] OTHER -> m

(* A whole run: the steps from a position to the end. *)
RECURSIVE RunToEnd(_, _)
RunToEnd(mod, m) ==
  IF m.pc \in {"done", "failed"} THEN m ELSE RunToEnd(mod, Step(mod, m))

(***************************************************************************)
(* Properties                                                              *)
(***************************************************************************)

RunEnded == pc \in {"done", "failed"}

(* The ledger entry that describes a call: the same kind of object, the    *)
(* verb of the operation, and the object (a created one is described by    *)
(* what it was created from, an updated one by a field the call carries).  *)
Describes(e, c) ==
  /\ e.kind = c.kind
  /\ CASE c.op = "create" -> e.what = "Created" /\ e.arg = c.arg
       [] c.op = "delete" -> e.what = "Deleted" /\ e.id = c.id
       [] c.op = "update" -> /\ e.what \in {"Updated", "Resized", "Upgraded"}
                             /\ e.id = c.id
                             /\ e.arg \in c.arg

(* C1: idempotence. A second run with the same desired spec, after a first *)
(* run that completed without error, issues no create, update or delete    *)
(* call and records no ledger entry (changed = false).                     *)
C1_SecondRunIsNoOp ==
  (run = 2 /\ pc = "done") =>
     (calls = <<>> /\ results.actions = <<>> /\ ~results.changed)

(* C10: ledger completeness. At the end of a run, changed is true and the  *)
(* ledger is non-empty exactly when the run issued a mutating call, and    *)
(* every call has a ledger entry that describes it.                        *)
C10_LedgerComplete ==
  RunEnded =>
     /\ (results.changed <=> calls # <<>>)
     /\ (results.actions # <<>> <=> calls # <<>>)
     /\ \A i \in 1..Len(calls) :
          \E j \in 1..Len(results.actions) : Describes(results.actions[j], calls[i])

(* A set of <<desired entry, remote entry>> pairs that binds no entry of   *)
(* either side twice.                                                      *)
OneToOne(B) == \A a, b \in B : (a[1] = b[1]) <=> (a[2] = b[2])

(* The remote config each desired config was found to be, in to_create     *)
(* (a config to recreate) or in to_update.                                 *)
NbConfigBindings ==
  {<<e.config, e.remote>> : e \in {x \in Range(loc.to_create) : x.remote # 0}}
  \cup {<<e.config, e.remote>> : e \in Range(loc.to_update)}

(* C2: no double binding. In every run each remote sub-resource (node      *)
(* pool, firewall device, NodeBalancer config, NodeBalancer node) is bound *)
(* to at most one desired entry and each desired entry to at most one      *)
(* remote sub-resource, a desired entry flagged recreate included.         *)
C2_NoDoubleBinding ==
  /\ (module \in {"lke_cluster", "firewall"} /\ "bound" \in DOMAIN loc)
        => OneToOne(loc.bound)
  /\ module = "nodebalancer" => OneToOne(NbConfigBindings) /\ OneToOne(loc.node_bound)

(* The delete call c removes an entry that is being replaced: a remote     *)
(* entry found for a desired entry and recreated.                          *)
Replaced(c) ==
  CASE module = "nodebalancer" /\ c.kind = "config" ->
         \E e \in Range(loc.to_create) : e.remote = c.id
    [] module = "nodebalancer" /\ c.kind = "node" ->
         \E b \in loc.node_bound : b[2] = c.id
    [] module = "firewall" /\ c.kind = "device" ->
         \E b \in loc.bound : b[2] = c.id
    [] OTHER -> FALSE

CollectionKinds == {"node_pool", "config", "node", "device"}

FwRecreateCase ==
  /\ module = "firewall" /\ pc = "devices"
  /\ DictHas(loc.device_map, params.devices[loc.k].id)
  /\ DictGet(loc.device_map, params.devices[loc.k].id).type # params.devices[loc.k].type
  /\ \E i \in DOMAIN remote.devices :
       remote.devices[i].id = DictGet(loc.device_map, params.devices[loc.k].id).id

(* The NodeBalancer is at a desired node whose label the map has with a    *)
(* supplied field that differs, the mapped node being still there.         *)
NbRecreateCase ==
  /\ module = "nodebalancer" /\ pc = "nodes"
  /\ DictHas(loc.node_map, loc.new_nodes[loc.nk].label)
  /\ ~SelectedEqual(dict_select_matching(
         loc.new_nodes[loc.nk], DictGet(loc.node_map, loc.new_nodes[loc.nk].label)))
  /\ \E i \in DOMAIN remote.nodes :
       remote.nodes[i].id = DictGet(loc.node_map, loc.new_nodes[loc.nk].label).id

(* The step issued exactly two calls: the delete of the remote entry id,   *)
(* then a create of the kind with the argument arg.                        *)
DeletedThenCreated(kind, id, arg) ==
  /\ Len(calls') = Len(calls) + 2
  /\ SubSeq(calls', 1, Len(calls)) = calls
  /\ calls'[Len(calls) + 1].op = "delete"
  /\ calls'[Len(calls) + 1].kind = kind
  /\ calls'[Len(calls) + 1].id = id
  /\ calls'[Len(calls) + 2].op = "create"
  /\ calls'[Len(calls) + 2].kind = kind
  /\ calls'[Len(calls) + 2].arg = arg

(* C4: recreate trigger. A desired firewall device matched by entity id to *)
(* a remote device of another type, and a desired NodeBalancer node        *)
(* matched by label to a remote node that differs in a supplied field, is  *)
(* handled by deleting the remote entry and then creating the desired one; *)
(* no in-place update is issued for it.                                    *)
C4_RecreateTrigger ==
  [][/\ FwRecreateCase =>
          DeletedThenCreated("device",
             DictGet(loc.device_map, params.devices[loc.k].id).id,
             <<params.devices[loc.k].id, params.devices[loc.k].type>>)
     /\ NbRecreateCase =>
          DeletedThenCreated("node",
             DictGet(loc.node_map, loc.new_nodes[loc.nk].label).id,
             loc.new_nodes[loc.nk].label)]_vars

(* A firewall run has just deleted a device and created one for the same   *)
(* entity with another type.                                               *)
C4_Witness ==
  /\ module = "firewall" /\ Len(calls) >= 2
  /\ calls[Len(calls) - 1].op = "delete" /\ calls[Len(calls) - 1].kind = "device"
  /\ calls[Len(calls)].op = "create" /\ calls[Len(calls)].kind = "device"
  /\ calls[Len(calls)].arg[1] = calls[Len(calls) - 1].arg[1]
  /\ calls[Len(calls)].arg[2] # calls[Len(calls) - 1].arg[2]

(* The first run of the scenario: desired inbound rules a:80, b:443        *)
(* against remote inbound rules a:8080, c:22 (InitFwScenario), at its end. *)
ScenarioDone ==
  /\ module = "firewall" /\ run = 1 /\ pc = "done"
  /\ "rules" \in DOMAIN params
  /\ params.rules = [inbound |-> ScenarioDesired]

LabelsAndPorts(rules) == [i \in DOMAIN rules |-> <<rules[i].label, rules[i].ports>>]

(* C5 as stated: after the scenario the remote list holds exactly a:80 and *)
(* b:443, whatever the state parameter.                                    *)
C5_StatedScenario ==
  ScenarioDone =>
    LabelsAndPorts(remote.rules.inbound) = <<<<"a", "80">>, <<"b", "443">>>>

(* C5: end-to-end scenario. With state=present one write of the rules      *)
(* leaves exactly a:80 and b:443 (a updated, b created, c deleted); with   *)
(* state=update rule c is kept and the list is a:80, c:22, b:443.          *)
C5_Scenario ==
  ScenarioDone =>
    /\ Len(calls) = 1 /\ calls[1].op = "update" /\ calls[1].kind = "rules"
    /\ LabelsAndPorts(remote.rules.inbound) =
         IF params.state = "present"
         THEN <<<<"a", "80">>, <<"b", "443">>>>
         ELSE <<<<"a", "80">>, <<"c", "22">>, <<"b", "443">>>>

(* The scenario has run with state=present. *)
C5_Witness == ScenarioDone /\ params.state = "present" /\ calls # <<>>

(* The orders a list can be put in. *)
Orders(list) ==
  {[i \in DOMAIN list |-> list[f[i]]] :
     f \in {g \in [DOMAIN list -> DOMAIN list] :
              \A a, b \in DOMAIN list : a # b => g[a] # g[b]}}

(* Two calls are the same operation: the same verb on the same remote      *)
(* entry, or the creation of the same thing.                               *)
SameOp(a, b) ==
  /\ a.op = b.op /\ a.kind = b.kind
  /\ (a.op = "create" \/ a.id = b.id)
  /\ a.arg = b.arg

(* Two lists of calls are the same multiset of operations. *)
SameOps(A, B) ==
  /\ Len(A) = Len(B)
  /\ \A i \in DOMAIN A :
       Cardinality({j \in DOMAIN A : SameOp(A[j], A[i])})
         = Cardinality({j \in DOMAIN B : SameOp(B[j], A[i])})

(* No two entries of the list have the same value of the key field.        *)
UniqueField(list, f) ==
  \A i, j \in DOMAIN list : i # j => list[i][f] # list[j][f]

(* No remote config agrees with two of the desired configs. *)
UniqueConfigMatches(configs, remote_configs) ==
  \A i, j \in DOMAIN configs :
    i # j => \A r \in DOMAIN remote_configs :
               ~(/\ nb_check_config_exists(<<remote_configs[r]>>, configs[i]) = 1
                 /\ nb_check_config_exists(<<remote_configs[r]>>, configs[j]) = 1)

(* The calls of the whole run that starts here with different parameters.  *)
CallsOfRun(p) == RunToEnd(module, [Cur EXCEPT !.params = p]).calls

(* C6: matching stability. For a fixed remote state, putting the desired   *)
(* node pools (distinct types), firewall devices (distinct entity ids) or  *)
(* NodeBalancer configs (no remote config agreeing with two of them) in    *)
(* another order gives a run with the same multiset of create, update and  *)
(* delete operations.                                                      *)
C6_MatchingStability ==
  pc = "start" =>
    /\ (module = "lke_cluster" /\ UniqueField(params.node_pools, "type")) =>
          \A q \in Orders(params.node_pools) :
             SameOps(CallsOfRun(params), CallsOfRun([params EXCEPT !.node_pools = q]))
    /\ (module = "firewall" /\ "devices" \in DOMAIN params
        /\ UniqueField(params.devices, "id")) =>
          \A q \in Orders(params.devices) :
             SameOps(CallsOfRun(params), CallsOfRun([params EXCEPT !.devices = q]))
    /\ (module = "nodebalancer" /\ "configs" \in DOMAIN params
        /\ UniqueConfigMatches(params.configs, remote.configs)) =>
          \A q \in Orders(params.configs) :
             SameOps(CallsOfRun(params), CallsOfRun([params EXCEPT !.configs = q]))

(* The places of the desired resource grants of a category with an id.     *)
ListedAt(k, id) ==
  IF "resources" \in DOMAIN params.grants
  THEN {j \in DOMAIN params.grants.resources :
          params.grants.resources[j].type = k /\ params.grants.resources[j].id = id}
  ELSE {}

ExampleRemoteGrants ==
  [global |-> [account_access |-> NULL, add_linodes |-> FALSE],
   linode |-> <<[id |-> 1, label |-> "linode1", permissions |-> "read_write"],
                [id |-> 2, label |-> "linode2", permissions |-> "read_only"]>>]

ExampleDesiredGrants ==
  [global |-> [account_access |-> NULL, add_linodes |-> FALSE],
   linode |-> <<[id |-> 1, permissions |-> "read_write"]>>]

GrantedIn(resource) ==
  [i \in DOMAIN NonNullGrants(resource) |->
     [id |-> NonNullGrants(resource)[i].id,
      permissions |-> NonNullGrants(resource)[i].permissions]]

(* The grant document already grants exactly what the desired grants ask:  *)
(* the same global grants and, in each category, the same non-null         *)
(* resource grants.                                                        *)
GrantsAsDesired(doc) ==
  /\ "global" \in DOMAIN params.grants
  /\ params.grants.global = doc.global
  /\ \A k \in DOMAIN doc \ {"global"} :
       GrantedIn(doc[k]) =
         GrantsOfType(IF "resources" \in DOMAIN params.grants
                      THEN params.grants.resources ELSE <<>>, k)

(* C8: grant write avoidance. _update_grants issues a PUT (and records its *)
(* ledger entry) only when the remote grant document did not already grant *)
(* exactly the desired permissions.                                        *)
C8_WriteAvoidance ==
  (module = "user" /\ loc.put_body # <<>>) => ~GrantsAsDesired(loc.old_grants)

(* A cluster run with a budget of 10 whose nodes and whose kubeconfig each *)
(* need 6 from the start of their poll.                                    *)
TwoPollsOfSix ==
  /\ module = "lke_cluster" /\ ~params.skip_polling
  /\ params.wait_timeout = WaitTimeout
  /\ remote.need.nodes = 6 /\ remote.need.kubeconfig = 6

(* The second poll of a run shares the budget of the first: a run of       *)
(* TwoPollsOfSix does not succeed, and a poll's deadline is never later    *)
(* than the budget counted from the start of the run.                      *)
SharedBudget ==
  /\ TwoPollsOfSix => pc # "done"
  /\ (module = "lke_cluster" /\ loc.waiting) => loc.deadline <= params.wait_timeout

AppliedCalls ==
  IF pc = "failed" /\ results.msg = "ApiError 404"
  THEN SubSeq(calls, 1, Len(calls) - 1)
  ELSE calls

(* C11: partial-apply ledger accuracy. When a run fails partway through,   *)
(* the ledger holds, for every sub-resource, as many "Created" and         *)
(* "Deleted" entries as create and delete calls on it were carried out     *)
(* before the failure: no entry describes an operation that was not        *)
(* applied.                                                                *)
C11_PartialLedger ==
  pc = "failed" =>
    \A kind \in {"device", "config", "node"} :
      \A id \in 1..remote.next_id :
        /\ Cardinality({j \in DOMAIN results.actions :
                          /\ results.actions[j].kind = kind
                          /\ results.actions[j].what = "Deleted"
                          /\ results.actions[j].id = id})
             = Cardinality({i \in DOMAIN AppliedCalls :
                              /\ AppliedCalls[i].kind = kind
                              /\ AppliedCalls[i].op = "delete"
                              /\ AppliedCalls[i].id = id})
        /\ Cardinality({j \in DOMAIN results.actions :
                          /\ results.actions[j].kind = kind
                          /\ results.actions[j].what = "Created"
                          /\ results.actions[j].id = id})
             = Cardinality({i \in DOMAIN AppliedCalls :
                              /\ AppliedCalls[i].kind = kind
                              /\ AppliedCalls[i].op = "create"
                              /\ AppliedCalls[i].id = id})

(* C12: validation before effects. A cluster run that is rejected because  *)
(* the desired spec asks to downgrade high availability has issued no      *)
(* mutating call and has an empty ledger.                                  *)
C12_ValidationFirst ==
  (/\ module = "lke_cluster" /\ pc = "failed"
   /\ results.msg = "Clusters cannot be downgraded from ha")
  => (calls = <<>> /\ results.actions = <<>> /\ ~results.changed)

(* C13: single combined write. In one run no node pool is saved more than  *)
(* once: the changed fields of a bound pool go out in one save call.       *)
C13_SingleWrite ==
  module = "lke_cluster" =>
    \A i, j \in DOMAIN calls :
      (/\ calls[i].kind = "node_pool" /\ calls[i].op = "update"
       /\ calls[j].kind = "node_pool" /\ calls[j].op = "update"
       /\ calls[i].id = calls[j].id)
      => i = j

(* C14: absent keys are untouched. A firewall run whose spec supplies no   *)
(* rules writes no rules, one whose spec supplies no devices creates and   *)
(* deletes no device, and the absence of either fails no run.              *)
C14_AbsentKeysUntouched ==
  module = "firewall" =>
    /\ "rules" \notin DOMAIN params =>
         \A i \in DOMAIN calls : calls[i].kind # "rules"
    /\ "devices" \notin DOMAIN params =>
         \A i \in DOMAIN calls : calls[i].kind # "device"
    /\ ("rules" \notin DOMAIN params /\ "devices" \notin DOMAIN params) =>
         pc # "failed"

(* The categories of the remote grant document for which the desired       *)
(* grants list no entry at all.                                            *)
UnlistedCategories ==
  {k \in DOMAIN loc.old_grants \ {"global"} :
     \A id \in {loc.old_grants[k][i].id : i \in DOMAIN loc.old_grants[k]} :
       ListedAt(k, id) = {}
     /\ (("resources" \in DOMAIN params.grants) =>
           \A j \in DOMAIN params.grants.resources :
             params.grants.resources[j].type # k)}

(* C15 as stated: a resource grant in a category for which the desired     *)
(* grants list no entries keeps its remote permission in the merged        *)
(* document.                                                               *)
C15_StatedBaseline ==
  (module = "user" /\ loc.put_body # <<>>) =>
    \A k \in UnlistedCategories :
      \A i \in DOMAIN loc.old_grants[k] :
        loc.put_body[k][i].permissions = loc.old_grants[k][i].permissions

(* C15: grant merge baseline. The merged document has the categories of    *)
(* the remote document and a place for each of its resource grants; in a   *)
(* category for which the desired grants list no entries every grant is    *)
(* revoked (permissions none), like any other id that is not listed.       *)
C15_MergeBaseline ==
  (module = "user" /\ loc.put_body # <<>>) =>
    /\ DOMAIN loc.put_body = DOMAIN loc.old_grants \cup {"global"}
    /\ \A k \in UnlistedCategories :
         loc.put_body[k] =
           [i \in DOMAIN loc.old_grants[k] |->
              [id |-> loc.old_grants[k][i].id, permissions |-> NULL]]

(* A PUT against a remote document that held a grant in a category the     *)
(* desired grants do not list.                                             *)
C15_Witness ==
  /\ module = "user" /\ loc.put_body # <<>>
  /\ \E k \in UnlistedCategories :
       \E i \in DOMAIN loc.old_grants[k] :
         /\ loc.old_grants[k][i].permissions # NULL
         /\ loc.put_body[k][i].permissions = NULL

(* The global sub-object of the desired grants, empty when none is given.  *)
DesiredGlobal ==
  IF "global" \in DOMAIN params.grants THEN params.grants.global ELSE <<>>

(* C16: global grants full replace. The global section of the merged grant *)
(* document that is PUT is exactly the desired global sub-object, and it   *)
(* is empty, not the remote one, when the desired grants supply none.      *)
C16_GlobalReplace ==
  (module = "user" /\ loc.put_body # <<>>) => loc.put_body.global = DesiredGlobal

(* A PUT without a desired global sub-object against a remote document     *)
(* whose global section grants something.                                  *)
C16_Witness ==
  /\ module = "user" /\ loc.put_body # <<>>
  /\ "global" \notin DOMAIN params.grants
  /\ loc.old_grants.global.add_linodes
  /\ loc.put_body.global = <<>>

(***************************************************************************)
(* C17: a wait that runs out of time aborts the run                        *)
(***************************************************************************)

NodesTimeoutMsg == "failed to wait for lke cluster: timeout period expired"

(* The time of the first evaluation of a poll's target, started at 0 with  *)
(* the given step, at which the deadline has passed.                       *)
LastCheck(timeout, step) ==
  CHOOSE t \in 0..(timeout + step) :
    /\ t % step = 0
    /\ t >= timeout
    /\ \A u \in 0..(timeout + step) : (u % step = 0 /\ u >= timeout) => t <= u

(* The cluster's nodes are not ready at any evaluation the budget allows.  *)
NodesNeverReady ==
  /\ module = "lke_cluster" /\ run = 1
  /\ ~params.skip_polling
  /\ remote.need.nodes > LastCheck(params.wait_timeout, LkeNodesStep)

PollingFor(c) ==
  /\ module = "lke_cluster"
  /\ pc = IF c = "kubeconfig" THEN "kubeconfig_poll" ELSE "dashboard_poll"

(* The deadline of the poll that is about to evaluate its condition. *)
PollDeadline ==
  IF loc.waiting THEN loc.deadline ELSE remote.now + seconds_remaining(Cur)

(* An evaluation that meets a 503 before the deadline sleeps one step and  *)
(* polls on.                                                               *)
PollsOnAt503(c, step) ==
  (PollingFor(c) /\ LkeEndpointStatus(Cur, c) = 503 /\ remote.now < PollDeadline)
    => /\ pc' = pc
       /\ remote'.now = remote.now + step
       /\ loc'.waiting
       /\ results' = results

(* An evaluation that meets any other error ends the poll and the run at   *)
(* once, with that error.                                                  *)
RaisesOtherErrors(c) ==
  (PollingFor(c) /\ LkeEndpointStatus(Cur, c) \notin {200, 503})
    => /\ pc' = "failed"
       /\ results'.msg = ApiErrorMsg(LkeEndpointStatus(Cur, c))
       /\ remote'.now = remote.now
       /\ ~loc'.waiting

(* C18: while the kubeconfig or the dashboard URL is polled for, a 503 is  *)
(* "not yet ready" and the poll goes on; any other error of the endpoint   *)
(* ends the poll and the run immediately, and the failed run takes no      *)
(* further step.                                                           *)
C18_PredicateErrors ==
  /\ [][/\ PollsOnAt503("kubeconfig", LkeKubeconfigStep)
        /\ PollsOnAt503("dashboard", LkeDashboardStep)
        /\ RaisesOtherErrors("kubeconfig")
        /\ RaisesOtherErrors("dashboard")]_vars
  /\ [][module = "lke_cluster" => pc # "failed"]_vars
  /\ []((module = "lke_cluster" /\ pc = "done" /\ ~params.skip_polling)
          => results.kubeconfig = "kubeconfig" /\ results.dashboard_url = "dashboard_url")

(* A kubeconfig poll has slept through a 503 and then failed on a 500.     *)
C18_Witness ==
  /\ module = "lke_cluster" /\ ~params.skip_polling
  /\ pc = "failed" /\ results.msg = "ApiError 500"
  /\ remote.fault.kubeconfig = 500
  /\ remote.slept > 0
  /\ results.kubeconfig = NULL

(***************************************************************************)
(* C19: two desired entries and one remote candidate                       *)
(***************************************************************************)

CallsOf(op, kind) == {i \in DOMAIN calls : calls[i].op = op /\ calls[i].kind = kind}

(* The remote pools of the type of the first desired pool, as              *)
(* _update_cluster found them.                                             *)
PoolCandidates ==
  {i \in DOMAIN loc.existing_pools :
     loc.existing_pools[i].type = params.node_pools[1].type}

(* A finished run with two desired pools of one type and count and one     *)
(* remote pool of that type.                                               *)
LkeTwinPools ==
  /\ module = "lke_cluster" /\ pc = "done" /\ "existing_pools" \in DOMAIN loc
  /\ Len(params.node_pools) = 2
  /\ params.node_pools[1].type = params.node_pools[2].type
  /\ params.node_pools[1].count = params.node_pools[2].count
  /\ Cardinality(PoolCandidates) = 1

(* The first desired pool is bound to the remote pool, the second is       *)
(* created, the remote pool is not deleted.                                *)
LkeFirstBinds ==
  LET i == CHOOSE j \in PoolCandidates : TRUE
      id == loc.existing_pools[i].id
  IN /\ loc.bound = {<<1, i>>}
     /\ Cardinality(CallsOf("create", "node_pool")) = 1
     /\ \A c \in CallsOf("create", "node_pool") :
          calls[c].arg = <<params.node_pools[2].type, params.node_pools[2].count>>
     /\ \A c \in CallsOf("delete", "node_pool") : calls[c].id # id
     /\ Cardinality({j \in DOMAIN remote.pools :
                       remote.pools[j].type = params.node_pools[1].type}) = 2
     /\ \E j \in DOMAIN remote.pools : remote.pools[j].id = id

(* The configs the NodeBalancer had when _handle_configs read them: those  *)
(* left in to_delete and those kept for an update.                         *)
NbInitialConfigs ==
  Range(loc.to_delete) \cup
  {c \in Range(remote.configs) : \E e \in Range(loc.to_update) : e.remote = c.id}

NbCandidates(config) ==
  {r \in NbInitialConfigs : nb_check_config_exists(<<r>>, config) = 1}

NbStructure(config) == [k \in DOMAIN config \ {"recreate", "nodes"} |-> config[k]]

(* A finished run with two structurally identical desired configs and one  *)
(* remote config that both match.                                          *)
NbTwinConfigs ==
  /\ module = "nodebalancer" /\ pc = "done" /\ "configs" \in DOMAIN params
  /\ Len(params.configs) = 2
  /\ NbStructure(params.configs[1]) = NbStructure(params.configs[2])
  /\ Cardinality(NbCandidates(params.configs[1])) = 1

NbFirstBinds ==
  LET r == CHOOSE c \in NbCandidates(params.configs[1]) : TRUE
  IN /\ loc.to_update = <<[config |-> 1, remote |-> r.id]>>
     /\ loc.to_create = <<[config |-> 2, remote |-> 0]>>
     /\ \A c \in CallsOf("delete", "config") : calls[c].id # r.id
     /\ Cardinality(CallsOf("create", "config")) = 1
     /\ r \in Range(remote.configs)
     /\ Cardinality({c \in Range(remote.configs) :
                       nb_check_config_exists(<<c>>, params.configs[1]) = 1}) = 2

LkePassesDone ==
  /\ module = "lke_cluster" /\ "existing_pools" \in DOMAIN loc
  /\ pc \notin {"exact_pass", "type_pass", "delete_pass"}

PoolCallsOfType(op, t) ==
  {i \in CallsOf(op, "node_pool") : op # "update" /\ calls[i].arg[1] = t}

DesiredOfType(t) == {k \in DOMAIN params.node_pools : params.node_pools[k].type = t}

RemoteOfType(t) == {i \in DOMAIN loc.existing_pools : loc.existing_pools[i].type = t}

(* The step has saved a node pool with a new count. *)
Resizes ==
  /\ module = "lke_cluster"
  /\ Len(calls') = Len(calls) + 1
  /\ calls'[Len(calls')].op = "update"
  /\ calls'[Len(calls')].kind = "node_pool"
  /\ "count" \in calls'[Len(calls')].arg

(* C20: for each node type with d desired and r remote pools, the passes   *)
(* create max(0, d - r) and delete max(0, r - d) pools of the type, and a  *)
(* pool is resized only for a desired pool whose count and type no remote  *)
(* pool that is still unbound has.                                         *)
C20_MinimalPoolOps ==
  /\ [](LkePassesDone =>
          \A t \in NodeTypes :
            LET d == Cardinality(DesiredOfType(t))
                r == Cardinality(RemoteOfType(t))
            IN /\ Cardinality(PoolCallsOfType("create", t)) = Max({0, d - r})
               /\ Cardinality(PoolCallsOfType("delete", t)) = Max({0, r - d}))
  /\ [][Resizes => /\ pc = "type_pass"
                   /\ ExactMatchIndex(Cur, params.node_pools[loc.k]) = 0]_vars

(* A finished run that has resized one pool, created one and deleted one.  *)
C20_Witness ==
  /\ module = "lke_cluster" /\ pc = "done" /\ run = 1
  /\ CallsOf("create", "node_pool") # {}
  /\ CallsOf("delete", "node_pool") # {}
  /\ \E i \in CallsOf("update", "node_pool") : "count" \in calls[i].arg

(***************************************************************************)
(* C21: a config flagged recreate is deleted once and created once         *)
(***************************************************************************)

(* The desired configs that were found on the NodeBalancer and are flagged *)
(* recreate, with the remote config each was found to be.                  *)
NbRecreated == {e \in Range(loc.to_create) : e.remote # 0}

(* C21: in a finished NodeBalancer run every desired config flagged        *)
(* recreate that matched a remote config has led to exactly one delete of  *)
(* that remote config, and after it to one create; the remote config is    *)
(* neither updated in place nor kept.                                      *)
C21_ForcedRecreate ==
  (module = "nodebalancer" /\ pc = "done") =>
    /\ Cardinality(CallsOf("create", "config")) = Len(loc.to_create)
    /\ \A e \in NbRecreated :
         /\ Cardinality({i \in CallsOf("delete", "config") : calls[i].id = e.remote}) = 1
         /\ \A i \in CallsOf("delete", "config"), j \in CallsOf("create", "config") :
              calls[i].id = e.remote => i < j
         /\ \A u \in Range(loc.to_update) : u.remote # e.remote
         /\ \A c \in Range(remote.configs) : c.id # e.remote

(***************************************************************************)
(* ip_share                                                                *)
(*                                                                         *)
(* params : linode_id, ips (a list of addresses), state (present, absent). *)
(* remote : shared, the set of addresses shared with the Linode.           *)
(***************************************************************************)

(* _share_ip_addresses: the addresses shared become those of the list. *)
ip_share_ip_addresses(m, ips) ==
  Call([m EXCEPT !.remote.shared = Range(ips)],
       [op |-> "share", kind |-> "ips", id |-> m.params.linode_id, arg |-> ips])

(* _check_shared_ip_addresses *)
ip_check_shared_ip_addresses(m, ips) == Range(ips) = m.remote.shared

IpPopulate(m) ==
  [m EXCEPT !.results.linode_id = m.params.linode_id,
            !.results.ips = m.remote.shared]

(* IPShareModule._handle_present *)
ip_handle_present(m) ==
  Goto(IF ip_check_shared_ip_addresses(m, m.params.ips) THEN m
       ELSE IpPopulate(register_action(
              ip_share_ip_addresses(m, m.params.ips),
              [what |-> "Shared", kind |-> "ips", id |-> m.params.linode_id,
               arg |-> "ips"])),
       "done")

(* IPShareModule._handle_absent *)
ip_handle_absent(m) ==
  Goto(IpPopulate(register_action(
         ip_share_ip_addresses(m, <<>>),
         [what |-> "Removed", kind |-> "ips", id |-> m.params.linode_id,
          arg |-> "ips"])),
       "done")

MaxIps == 2

IpValues == {"192.0.2.1", "192.0.2.2", "2001:db8::/64"}

IpResults ==
  [changed |-> FALSE, actions |-> <<>>, msg |-> NULL, linode_id |-> NULL, ips |-> NULL]

InitIpShare ==
  /\ module = "ip_share"
  /\ \E ips \in SeqsUpTo(IpValues, MaxIps), shared \in SUBSET IpValues,
        state \in {"present", "absent"} :
       /\ params = [linode_id |-> 1, ips |-> ips, state |-> state]
       /\ remote = [shared |-> shared]
  /\ results = IpResults
  /\ calls = <<>>
  /\ loc = <<>>
  /\ pc = "start"
  /\ run = 1

IpHandlePresent ==
  /\ module = "ip_share" /\ pc = "start" /\ params.state = "present"
  /\ Commit(ip_handle_present(Cur))

IpHandleAbsent ==
  /\ module = "ip_share" /\ pc = "start" /\ params.state = "absent"
  /\ Commit(ip_handle_absent(Cur))

(* The same task is run a second time, against what the first run left.    *)
IpRunAgain ==
  /\ module = "ip_share" /\ pc = "done" /\ run = 1
  /\ run' = 2
  /\ pc' = "start"
  /\ results' = IpResults
  /\ calls' = <<>>
  /\ UNCHANGED <<module, params, remote, loc>>

NextIpShare ==
  \/ IpHandlePresent
  \/ IpHandleAbsent
  \/ IpRunAgain

SpecIpShare == InitIpShare /\ [][NextIpShare]_vars

(***************************************************************************)
(* C22: state=absent on what is already absent                             *)
(***************************************************************************)

(* C22: a finished absent run that found nothing to remove (for ip_share:  *)
(* no address was shared with the Linode when the run started) has issued  *)
(* no mutating call, recorded no ledger entry and reports changed = false. *)
(* A second run always starts from what the first absent run left: nothing *)
(* shared.                                                                 *)
C22_AbsentNoOp ==
  (module = "ip_share" /\ params.state = "absent" /\ run = 2 /\ pc = "done") =>
    /\ calls = <<>>
    /\ results.actions = <<>>
    /\ ~results.changed

(***************************************************************************)
(* database_mysql_v2                                                       *)
(*                                                                         *)
(* params : label, state, wait_timeout, engine and, when supplied,         *)
(*          allow_list, cluster_size, type, updates (day_of_week,          *)
(*          duration, frequency, hour_of_day).                             *)
(* remote : exists, label, allow_list, cluster_size, type, version,        *)
(*          updates (the four fields and pending), now, slept and need,    *)
(*          the time the database needs to become active and to show its   *)
(*          new size.                                                      *)
(***************************************************************************)

(* str.split on "/" and on ".", for the engines and versions of the runs.  *)
StrSplit(s) ==
  CASE s = "mysql/8" -> <<"mysql", "8">>
    [] s = "mysql/9" -> <<"mysql", "9">>
    [] s = "mysql" -> <<"mysql">>
    [] s = "8.0.30" -> <<"8", "0", "30">>
    [] s = "9.1.0" -> <<"9", "1", "0">>

(* int() of the components that occur. *)
StrInt(s) == CASE s = "8" -> 8 [] s = "9" -> 9 [] s = "0" -> 0 [] s = "1" -> 1
               [] s = "30" -> 30

DB_MUTABLE_FIELDS == {"label", "allow_list", "cluster_size", "updates", "type", "version"}

DbFields == <<"label", "allow_list", "cluster_size", "type", "updates", "version">>

(* The remote database as handle_updates reads it; of its three-part       *)
(* version the major version is what the integer handed in is told from.   *)
DbObject(m) ==
  [k \in Range(DbFields) |->
     IF k = "version" THEN StrInt(StrSplit(m.remote.version)[1]) ELSE m.remote[k]]

(* The version the API reports for a major version. *)
DbVersionOf(major) == IF major = 9 THEN "9.1.0" ELSE "8.0.30"

(* An _update that hands the supplied update window in as it is. *)
DbUpdateParamsAsSupplied(m) ==
  LET P == m.params
      base == [k \in DOMAIN P \cap {"label", "allow_list", "cluster_size", "type",
                                    "updates"} |-> P[k]]
      ver == IF "engine" \in DOMAIN P
                /\ StrInt(StrSplit(m.remote.version)[1]) # StrInt(StrSplit(P.engine)[2])
             THEN [version |-> StrInt(StrSplit(P.engine)[2])] ELSE <<>>
  IN base @@ ver

(* _update, the parameters handed to handle_updates: engine gives way to   *)
(* version when the major version differs, updates takes the remote        *)
(* pending.                                                                *)
DbUpdateParams(m) ==
  LET P == m.params
      base == [k \in DOMAIN P \cap {"label", "allow_list", "cluster_size", "type"} |-> P[k]]
      ver == IF "engine" \in DOMAIN P
                /\ StrInt(StrSplit(m.remote.version)[1]) # StrInt(StrSplit(P.engine)[2])
             THEN [version |-> StrInt(StrSplit(P.engine)[2])] ELSE <<>>
      upd == IF "updates" \in DOMAIN P
             THEN [updates |-> P.updates @@ [pending |-> m.remote.updates.pending]]
             ELSE <<>>
  IN base @@ ver @@ upd

(* wait_for_database_status(client, database, "active", timeout): a poll;  *)
(* its timeout fails the run.                                              *)
wait_for_database_status(m, onready) ==
  LET n == poll(m, m.remote.need.active, 2, seconds_remaining(m), onready)
  IN IF n.pc = "timed_out"
     THEN Fail(n, "failed to wait for database status: timeout period expired")
     ELSE n

(* _create: mysql_create, then the wait for the create to finish. *)
db_create(m) ==
  LET P == m.params
  IN Goto(Call([m EXCEPT
                  !.remote.exists = TRUE,
                  !.remote.allow_list =
                     IF "allow_list" \in DOMAIN P THEN P.allow_list ELSE <<>>,
                  !.remote.cluster_size =
                     IF "cluster_size" \in DOMAIN P THEN P.cluster_size ELSE 1,
                  !.remote.type = IF "type" \in DOMAIN P THEN P.type ELSE @,
                  !.remote.version = DbVersionOf(StrInt(StrSplit(P.engine)[2]))],
                [op |-> "create", kind |-> "database", id |-> 0, arg |-> P.label]),
          "create_wait")

(* _handle_present up to _update. *)
db_handle_present(m) == IF m.remote.exists THEN Goto(m, "update") ELSE db_create(m)

(* The end of _create and the ledger entry of _handle_present. *)
db_create_wait(m) ==
  LET n == wait_for_database_status(m, "update")
  IN IF n.pc = "update"
     THEN register_action(n, [what |-> "Created", kind |-> "database", id |-> 0,
                              arg |-> m.params.label])
     ELSE n

(* What follows handle_updates in _update. *)
DbAfterUpdates(m, r) ==
  IF r.failed THEN Fail(m, "non-updatable field")
  ELSE LET n == [r.m EXCEPT !.remote =
                              [k \in DOMAIN r.obj |->
                                 IF k = "version" THEN DbVersionOf(r.obj[k])
                                 ELSE r.obj[k]] @@ @,
                            !.loc.updated_fields = r.updated]
       IN Goto(n, IF r.updated # {} THEN "wait_active" ELSE "populate")

(* _update up to the waits. *)
db_update(m) ==
  IF "engine" \in DOMAIN m.params /\ Len(StrSplit(m.params.engine)) < 2
  THEN Fail(m, "ValueError: Invalid engine")
  ELSE DbAfterUpdates(m, handle_updates(m, "database", DbObject(m), DbUpdateParams(m),
                                        DbFields, DB_MUTABLE_FIELDS))

(* _update: the wait after a write. *)
db_update_wait(m) ==
  LET n == wait_for_database_status(m, "poll_size")
  IN IF n.pc = "poll_size" /\ "cluster_size" \notin m.loc.updated_fields
     THEN [Goto(n, "populate") EXCEPT !.loc.waits = @ + 1]
     ELSE IF n.pc = "poll_size" THEN [n EXCEPT !.loc.waits = @ + 1]
     ELSE n

(* An _update that takes the new cluster size for shown at once. *)
db_poll_cluster_size_skipped(m) ==
  [Goto(m, "populate") EXCEPT !.loc.waits = @ + 1]

(* _update: the poll for the new cluster size. *)
db_poll_cluster_size(m) ==
  LET n == poll_condition(m, m.remote.need.size, 1, seconds_remaining(m), "populate")
  IN IF n.pc = "populate" THEN [n EXCEPT !.loc.waits = @ + 1] ELSE n

(* _populate_results *)
db_populate_results(m) == Goto([m EXCEPT !.results.database = m.params.label], "done")

MaxAllow == 1

DbResults ==
  [changed |-> FALSE, actions |-> <<>>, msg |-> NULL, database |-> NULL]

(* The locals of _update; waits counts the waits and polls that were       *)
(* carried out.                                                            *)
DbNoLoc == PollIdle @@ [updated_fields |-> {}, waits |-> 0]

DbWindows ==
  [day_of_week : {1, 2}, duration : {4}, frequency : {"weekly"}, hour_of_day : {0}]

DbBaseRemote ==
  [exists |-> TRUE, label |-> "db", allow_list |-> <<>>, cluster_size |-> 1,
   type |-> "g6-nanode-1", version |-> "8.0.30",
   updates |-> [day_of_week |-> 1, duration |-> 4, frequency |-> "weekly",
                hour_of_day |-> 0, pending |-> <<>>],
   now |-> 0, slept |-> 0, need |-> [active |-> 0, size |-> 0]]

InitDb ==
  /\ module = "database_mysql_v2"
  /\ \E opt \in SUBSET {"allow_list", "cluster_size", "type", "updates"},
        al \in SeqsUpTo({"10.0.0.1/32"}, MaxAllow), size \in {1, 3},
        type \in {"g6-nanode-1", "g6-standard-1"}, upd \in DbWindows,
        engine \in {"mysql/8", "mysql/9", "mysql"},
        ral \in SeqsUpTo({"10.0.0.1/32"}, MaxAllow), rsize \in {1, 3},
        rver \in {"8.0.30", "9.1.0"}, exists \in BOOLEAN,
        na \in {0, 3, 15}, ns \in {0, 2, 15} :
       /\ params = [k \in opt |-> CASE k = "allow_list" -> al
                                    [] k = "cluster_size" -> size
                                    [] k = "type" -> type
                                    [] k = "updates" -> upd]
                   @@ [label |-> "db", state |-> "present", engine |-> engine,
                       wait_timeout |-> WaitTimeout]
       /\ ("allow_list" \notin opt => al = <<>>)
       /\ ("cluster_size" \notin opt => size = 1)
       /\ ("type" \notin opt => type = "g6-nanode-1")
       /\ ("updates" \notin opt => upd.day_of_week = 1)
       /\ (~exists => ral = <<>> /\ rsize = 1 /\ rver = "8.0.30" /\ engine # "mysql")
       /\ remote = [DbBaseRemote EXCEPT
                      !.exists = exists, !.allow_list = ral, !.cluster_size = rsize,
                      !.version = rver, !.need = [active |-> na, size |-> ns]]
  /\ results = DbResults
  /\ calls = <<>>
  /\ loc = DbNoLoc
  /\ pc = "start"
  /\ run = 1

DbHandlePresent ==
  /\ module = "database_mysql_v2" /\ pc = "start"
  /\ Commit(db_handle_present(Cur))

DbCreateWait ==
  /\ module = "database_mysql_v2" /\ pc = "create_wait"
  /\ Commit(db_create_wait(Cur))

DbUpdate ==
  /\ module = "database_mysql_v2" /\ pc = "update"
  /\ Commit(db_update(Cur))

DbUpdateWait ==
  /\ module = "database_mysql_v2" /\ pc = "wait_active"
  /\ Commit(db_update_wait(Cur))

DbPollClusterSize ==
  /\ module = "database_mysql_v2" /\ pc = "poll_size"
  /\ Commit(db_poll_cluster_size(Cur))

DbPopulateResults ==
  /\ module = "database_mysql_v2" /\ pc = "populate"
  /\ Commit(db_populate_results(Cur))

NextDb ==
  \/ DbHandlePresent
  \/ DbCreateWait
  \/ DbUpdate
  \/ DbUpdateWait
  \/ DbPollClusterSize
  \/ DbPopulateResults

SpecDb == InitDb /\ [][NextDb]_vars

(***************************************************************************)
(* C23: _update with nothing to change                                     *)
(***************************************************************************)

(* Every supplied mutable field of the database has the remote value: the  *)
(* plain fields, the four fields of the update window, and the major       *)
(* version asked for by the engine.                                        *)
DbAllEqual ==
  /\ \A k \in DOMAIN params \cap {"label", "allow_list", "cluster_size", "type"} :
       params[k] = remote[k]
  /\ "updates" \in DOMAIN params =>
       \A f \in DOMAIN params.updates : params.updates[f] = remote.updates[f]
  /\ Len(StrSplit(params.engine)) = 2
  /\ StrSplit(params.engine)[2] = StrSplit(remote.version)[1]

(* C23: an _update that finds every supplied mutable field equal to the    *)
(* remote value goes straight on to the results: no ledger entry, no       *)
(* write, no wait for the active status and no poll for the cluster size.  *)
C23_ReconcilerNoOp ==
  /\ [][(module = "database_mysql_v2" /\ pc = "update" /\ DbAllEqual) =>
          /\ pc' = "populate"
          /\ results' = results
          /\ calls' = calls
          /\ remote' = remote
          /\ loc'.updated_fields = {}]_vars
  /\ []((module = "database_mysql_v2" /\ pc \in {"wait_active", "poll_size"}) =>
          /\ loc.updated_fields # {}
          /\ results.changed
          /\ calls # <<>>)

(* An existing database with an update window, a size and an allow list    *)
(* supplied, all as the remote has them, has been handled without a wait.  *)
C23_Witness ==
  /\ module = "database_mysql_v2" /\ pc = "done" /\ DbAllEqual
  /\ {"updates", "cluster_size", "allow_list"} \subseteq DOMAIN params
  /\ calls = <<>> /\ results.actions = <<>> /\ ~results.changed
  /\ loc.waits = 0 /\ remote.slept = 0

(***************************************************************************)
(* image                                                                   *)
(*                                                                         *)
(* params : label, state, wait, recreate, wait_for_replications,           *)
(*          wait_timeout and, when supplied, description, replica_regions. *)
(* remote : exists, description, regions, ready_at (the time from which    *)
(*          the image's status is available), replicated_at (the time from *)
(*          which all its regions are), now, slept and need, the time a    *)
(*          creation and a replication take.                               *)
(***************************************************************************)

IMAGE_MUTABLE_FIELDS == {"description", "tags"}

(* image._api_get(); image.status *)
ImageStatus(m) == IF m.remote.now >= m.remote.ready_at THEN "available" ELSE "creating"

(* image.delete() and its ledger entry. *)
img_delete(m) ==
  register_action(
    Call([m EXCEPT !.remote.exists = FALSE],
         [op |-> "delete", kind |-> "image", id |-> 0, arg |-> m.params.label]),
    [what |-> "Deleted", kind |-> "image", id |-> 0, arg |-> m.params.label])

(* _create_image and its ledger entry. *)
img_create_image(m) ==
  register_action(
    Call([m EXCEPT
            !.remote.exists = TRUE,
            !.remote.description =
               IF "description" \in DOMAIN m.params THEN m.params.description ELSE NULL,
            !.remote.regions = <<"us-east">>,
            !.remote.ready_at = m.remote.now + m.remote.need.available,
            !.loc.created = TRUE],
         [op |-> "create", kind |-> "image", id |-> 0, arg |-> m.params.label]),
    [what |-> "Created", kind |-> "image", id |-> 0, arg |-> m.params.label])

(* _handle_present up to the wait or the update. *)
img_handle_present(m) ==
  LET d == IF m.params.recreate /\ m.remote.exists THEN img_delete(m) ELSE m
  IN IF d.remote.exists THEN Goto(d, "update")
     ELSE Goto(img_create_image(d), IF m.params.wait THEN "wait_status" ELSE "update")

(* A wait that takes the first look for the last. *)
img_wait_for_image_status_once(m) == Goto(m, "update")

(* _wait_for_image_status(image, {"available"}) *)
img_wait_for_image_status(m) ==
  LET n == poll(m, m.remote.need.available, 10, seconds_remaining(m), "update")
  IN IF n.pc = "timed_out"
     THEN Fail(n, "failed to wait for image status: timeout period expired")
     ELSE n

ImgAfterUpdates(m, r) ==
  IF r.failed THEN Fail(m, "non-updatable field")
  ELSE Goto([r.m EXCEPT !.remote.description = r.obj.description], "replicate")

(* _update_image *)
img_update_image(m) ==
  ImgAfterUpdates(m, handle_updates(m, "image", [description |-> m.remote.description],
                                    [k \in DOMAIN m.params \cap {"description"} |->
                                       m.params[k]],
                                    <<"description">>, IMAGE_MUTABLE_FIELDS))

img_populate(m, p) == [m EXCEPT !.results.image = m.params.label, !.pc = p]

(* image.replicate(new_regions) and its ledger entry. *)
img_replicate(m, new_regions) ==
  register_action(
    Call([m EXCEPT !.remote.regions = new_regions,
                   !.remote.replicated_at = m.remote.now + m.remote.need.replication],
         [op |-> "replicate", kind |-> "image", id |-> 0, arg |-> new_regions]),
    [what |-> "Replicated", kind |-> "image", id |-> 0, arg |-> new_regions])

(* _handle_present: the replication. *)
img_handle_replication(m) ==
  IF "replica_regions" \notin DOMAIN m.params
     \/ m.params.replica_regions = m.remote.regions
  THEN img_populate(m, "done")
  ELSE IF Range(m.params.replica_regions) \cap Range(m.remote.regions) = {}
  THEN Fail(m, "failed to replicate image: replica_regions value is invalid")
  ELSE IF m.params.wait_for_replications
  THEN Goto(img_replicate(m, m.params.replica_regions), "wait_replication")
  ELSE img_populate(img_replicate(m, m.params.replica_regions), "done")

(* _wait_for_image_replication_status(image, {"available"}) *)
img_wait_for_image_replication_status(m) ==
  LET n == poll(m, m.remote.need.replication, 10, seconds_remaining(m), "done")
  IN IF n.pc = "timed_out"
     THEN Fail(n, "failed to wait for image replication status: timeout period expired")
     ELSE IF n.pc = "done" THEN img_populate(n, "done")
     ELSE n

ImgResults == [changed |-> FALSE, actions |-> <<>>, msg |-> NULL, image |-> NULL]

ImgNoLoc == PollIdle @@ [created |-> FALSE]

ImgRegionLists == {<<>>, <<"us-east">>, <<"us-east", "eu-west">>, <<"eu-west">>}

InitImage ==
  /\ module = "image"
  /\ \E opt \in SUBSET {"description", "replica_regions"},
        wait \in BOOLEAN, recreate \in BOOLEAN, wfr \in BOOLEAN,
        rr \in ImgRegionLists, exists \in BOOLEAN,
        rdesc \in {"a", "b"}, rreg \in {<<"us-east">>, <<"us-east", "eu-west">>},
        na \in {0, 5, 15}, nr \in {0, 5, 15} :
       /\ params = [k \in opt |-> IF k = "description" THEN "a" ELSE rr]
                   @@ [label |-> "img", state |-> "present", wait |-> wait,
                       recreate |-> recreate, wait_for_replications |-> wfr,
                       wait_timeout |-> WaitTimeout]
       /\ ("replica_regions" \notin opt => rr = <<>> /\ ~wfr /\ nr = 0)
       /\ (~exists => rdesc = "a" /\ rreg = <<"us-east">> /\ ~recreate)
       /\ remote = [exists |-> exists, description |-> rdesc, regions |-> rreg,
                    ready_at |-> 0, replicated_at |-> 0, now |-> 0, slept |-> 0,
                    need |-> [available |-> na, replication |-> nr]]
  /\ results = ImgResults
  /\ calls = <<>>
  /\ loc = ImgNoLoc
  /\ pc = "start"
  /\ run = 1

ImgHandlePresent ==
  /\ module = "image" /\ pc = "start"
  /\ Commit(img_handle_present(Cur))

ImgWaitForImageStatus ==
  /\ module = "image" /\ pc = "wait_status"
  /\ Commit(img_wait_for_image_status(Cur))

ImgUpdateImage ==
  /\ module = "image" /\ pc = "update"
  /\ Commit(img_update_image(Cur))

ImgHandleReplication ==
  /\ module = "image" /\ pc = "replicate"
  /\ Commit(img_handle_replication(Cur))

ImgWaitForImageReplicationStatus ==
  /\ module = "image" /\ pc = "wait_replication"
  /\ Commit(img_wait_for_image_replication_status(Cur))

NextImage ==
  \/ ImgHandlePresent
  \/ ImgWaitForImageStatus
  \/ ImgUpdateImage
  \/ ImgHandleReplication
  \/ ImgWaitForImageReplicationStatus

SpecImage == InitImage /\ [][NextImage]_vars

(***************************************************************************)
(* C24: a created image is waited for                                      *)
(***************************************************************************)

(* The step issues an update or a replicate call on the image. *)
ImgTouches ==
  /\ module = "image"
  /\ Len(calls') > Len(calls)
  /\ \E i \in (Len(calls) + 1)..Len(calls') :
       calls'[i].kind = "image" /\ calls'[i].op \in {"update", "replicate"}

(* C24: with wait = true, an image created in the run (after a delete for  *)
(* a recreate too) gets no update and no replicate call while its status   *)
(* is not yet available; a run whose wait timed out has failed and issues  *)
(* no call any more.                                                       *)
C24_CreatedImageIsWaitedFor ==
  /\ [][(ImgTouches /\ params.wait /\ loc.created) =>
          ImageStatus(Cur) = "available" /\ pc # "failed"]_vars
  /\ [][(module = "image" /\ pc = "failed") => calls' = calls]_vars
  /\ []((module = "image" /\ params.wait /\ loc.created
         /\ pc \in {"update", "replicate", "wait_replication", "done"})
          => ImageStatus(Cur) = "available")

(* An image was deleted, created again, waited for through one sleep and   *)
(* then replicated.                                                        *)
C24_Witness ==
  /\ module = "image" /\ params.wait /\ params.recreate /\ loc.created
  /\ remote.need.available > 0 /\ remote.slept > 0
  /\ \E i, j, k \in DOMAIN calls :
       /\ i < j /\ j < k
       /\ calls[i].op = "delete" /\ calls[j].op = "create" /\ calls[k].op = "replicate"

(***************************************************************************)
(* C25: skip_polling                                                       *)
(***************************************************************************)

(* What the endpoint c answers to the one read of a run that has not       *)
(* slept.                                                                  *)
UnpolledStatus(c) ==
  IF remote.need[c] = 0 THEN 200
  ELSE IF remote.fault.from = 0 THEN remote.fault[c] ELSE 503

UnpolledValue(c, value, placeholder) ==
  IF UnpolledStatus(c) = 200 THEN value ELSE placeholder

(* C25: a present run with skip_polling = true never waits: it is never in *)
(* the wait for the nodes nor in a poll and lets no time pass; it reads    *)
(* the kubeconfig and the dashboard URL once each, a 503 giving the        *)
(* placeholder, and fails on an endpoint error only when the error is not  *)
(* a 503.                                                                  *)
C25_SkipPolling ==
  (module = "lke_cluster" /\ params.skip_polling) =>
    /\ pc \notin {"wait_nodes", "kubeconfig_poll", "dashboard_poll"}
    /\ remote.slept = 0 /\ remote.now = 0 /\ ~loc.waiting
    /\ pc = "done" =>
         /\ results.kubeconfig =
              UnpolledValue("kubeconfig", "kubeconfig", "Kubeconfig not yet available...")
         /\ results.dashboard_url =
              UnpolledValue("dashboard", "dashboard_url",
                            "Dashboard URL not yet available...")
    /\ (pc = "failed" /\ results.cluster # NULL) =>
         \/ UnpolledStatus("kubeconfig") \notin {200, 503}
         \/ UnpolledStatus("dashboard") \notin {200, 503}

(* A finished run without polling that got a 503 from both endpoints.      *)
C25_Witness ==
  /\ module = "lke_cluster" /\ params.skip_polling /\ pc = "done" /\ run = 1
  /\ UnpolledStatus("kubeconfig") = 503 /\ UnpolledStatus("dashboard") = 503
  /\ results.kubeconfig = "Kubeconfig not yet available..."
  /\ results.dashboard_url = "Dashboard URL not yet available..."

(***************************************************************************)
(* lke_node_pool                                                           *)
(*                                                                         *)
(* params : cluster_id, tags (a list), type, count, skip_polling,          *)
(*          wait_timeout; autoscaler, taints, labels, k8s_version and      *)
(*          update_strategy are not supplied.                              *)
(* remote : pools, the node pools [id, tags, type, count] of the cluster   *)
(*          in the order the API lists them, next_id, now, slept, need.    *)
(***************************************************************************)

(* A lookup that compares the tag lists as lists. *)
pool_get_node_pool_listwise(m) ==
  FirstIndex({i \in DOMAIN m.remote.pools : m.remote.pools[i].tags = m.params.tags})

(* _get_node_pool: the place of the first pool of the cluster whose set of *)
(* tags is the desired set; 0 for None.                                    *)
pool_get_node_pool(m) ==
  FirstIndex({i \in DOMAIN m.remote.pools :
                Range(m.remote.pools[i].tags) = Range(m.params.tags)})

(* _create_pool *)
pool_create_pool(m) ==
  register_action(
    Call([m EXCEPT
            !.remote.pools = Append(@, [id |-> m.remote.next_id, tags |-> m.params.tags,
                                        type |-> m.params.type,
                                        count |-> m.params.count]),
            !.remote.next_id = @ + 1],
         [op |-> "create", kind |-> "node_pool", id |-> m.remote.next_id,
          arg |-> <<m.params.type, m.params.count>>]),
    [what |-> "Created", kind |-> "node_pool", id |-> m.remote.next_id,
     arg |-> <<m.params.type, m.params.count>>])

PoolBind(m, i) == [m EXCEPT !.loc.pool = m.remote.pools[i].id, !.pc = "update"]

(* _handle_present up to _update_pool. *)
pool_handle_present(m) ==
  IF pool_get_node_pool(m) # 0 THEN PoolBind(m, pool_get_node_pool(m))
  ELSE PoolBind(pool_create_pool(m), Len(m.remote.pools) + 1)

PoolAt(m) == CHOOSE i \in DOMAIN m.remote.pools : m.remote.pools[i].id = m.loc.pool

(* _update_pool after handle_updates: the resize and the save. *)
PoolResize(m, i) ==
  IF m.remote.pools[i].count # m.params.count
  THEN Call(register_action([m EXCEPT !.remote.pools[i].count = m.params.count],
                            [what |-> "Resized", kind |-> "node_pool",
                             id |-> m.loc.pool, arg |-> "count"]),
            [op |-> "update", kind |-> "node_pool", id |-> m.loc.pool,
             arg |-> {"count"}])
  ELSE m

PoolAfterUpdates(m, r, i) ==
  IF r.failed THEN Fail(m, "failed to update lke cluster node pool")
  ELSE Goto(PoolResize(r.m, i), IF m.params.skip_polling THEN "populate" ELSE "wait_nodes")

(* _update_pool: handle_updates with no mutable field, then the resize. *)
pool_update_pool(m) ==
  PoolAfterUpdates(m,
    handle_updates(m, "node_pool",
                   [tags |-> m.remote.pools[PoolAt(m)].tags,
                    type |-> m.remote.pools[PoolAt(m)].type],
                   [tags |-> m.params.tags, type |-> m.params.type],
                   <<"tags", "type">>, {}),
    PoolAt(m))

(* LinodeLKENodePool._wait_for_all_nodes_ready *)
pool_wait_for_all_nodes_ready(m) ==
  LET n == poll(m, m.remote.need.nodes, 4, seconds_remaining(m), "populate")
  IN IF n.pc = "timed_out"
     THEN Fail(n, "failed to wait for lke node pool nodes: timeout period expired")
     ELSE n

pool_populate(m) == [m EXCEPT !.results.node_pool = m.loc.pool, !.pc = "done"]

MaxTags == 2

MaxClusterPools == 2

PoolTagLists == SeqsUpTo({"a", "b"}, MaxTags)

PoolRemoteTagLists == {<<>>, <<"a">>, <<"a", "b">>, <<"b", "a">>}

PoolResults == [changed |-> FALSE, actions |-> <<>>, msg |-> NULL, node_pool |-> NULL]

PoolNoLoc == PollIdle @@ [pool |-> 0]

InitPool ==
  /\ module = "lke_node_pool"
  /\ \E tags \in PoolTagLists, type \in NodeTypes, count \in NodeCounts,
        rp \in SeqsUpTo(PoolRemoteTagLists, MaxClusterPools),
        skip \in BOOLEAN, nn \in {0, 6, 15} :
       /\ params = [cluster_id |-> 1, state |-> "present", tags |-> tags, type |-> type,
                    count |-> count, skip_polling |-> skip,
                    wait_timeout |-> WaitTimeout]
       /\ (skip => nn = 0)
       /\ remote = [pools |-> [i \in DOMAIN rp |->
                                 [id |-> i, tags |-> rp[i], type |-> "g6-standard-1",
                                  count |-> 1]],
                    next_id |-> Len(rp) + 1, now |-> 0, slept |-> 0,
                    need |-> [nodes |-> nn]]
  /\ results = PoolResults
  /\ calls = <<>>
  /\ loc = PoolNoLoc
  /\ pc = "start"
  /\ run = 1

PoolHandlePresent ==
  /\ module = "lke_node_pool" /\ pc = "start"
  /\ Commit(pool_handle_present(Cur))

PoolUpdatePool ==
  /\ module = "lke_node_pool" /\ pc = "update"
  /\ Commit(pool_update_pool(Cur))

PoolWaitForAllNodesReady ==
  /\ module = "lke_node_pool" /\ pc = "wait_nodes"
  /\ Commit(pool_wait_for_all_nodes_ready(Cur))

PoolPopulate ==
  /\ module = "lke_node_pool" /\ pc = "populate"
  /\ Commit(pool_populate(Cur))

(* The same task is run again, after a run that ended or failed.           *)
PoolRunAgain ==
  /\ module = "lke_node_pool" /\ pc \in {"done", "failed"} /\ run = 1
  /\ run' = 2
  /\ pc' = "start"
  /\ results' = PoolResults
  /\ calls' = <<>>
  /\ loc' = PoolNoLoc
  /\ remote' = [remote EXCEPT !.now = 0, !.slept = 0, !.need = [nodes |-> 0]]
  /\ UNCHANGED <<module, params>>

NextPool ==
  \/ PoolHandlePresent
  \/ PoolUpdatePool
  \/ PoolWaitForAllNodesReady
  \/ PoolPopulate
  \/ PoolRunAgain

SpecPool == InitPool /\ [][NextPool]_vars

(***************************************************************************)
(* C26: node pools are told apart by their tag set                         *)
(***************************************************************************)

(* The pools of the cluster that have the desired set of tags. *)
SameTagSet == {i \in DOMAIN remote.pools : Range(remote.pools[i].tags) = Range(params.tags)}

(* C26: the lke_node_pool module creates a pool only when the cluster has  *)
(* no pool with the desired set of tags; otherwise it binds the first pool *)
(* with that set, whatever the order and the repetitions of the tags; so   *)
(* the second of two runs never creates.                                   *)
C26_TagSetIdentity ==
  /\ [][(module = "lke_node_pool" /\ pc = "start") =>
          IF SameTagSet = {}
          THEN /\ Len(remote'.pools) = Len(remote.pools) + 1
               /\ loc'.pool = remote.next_id
               /\ Range(remote'.pools[Len(remote'.pools)].tags) = Range(params.tags)
          ELSE /\ remote' = remote /\ calls' = calls
               /\ loc'.pool = remote.pools[Min(SameTagSet)].id]_vars
  /\ []((module = "lke_node_pool" /\ run = 2) => CallsOf("create", "node_pool") = {})

(* The second run has bound the pool the first run created, and a pool     *)
(* whose tags are the desired ones in another order was bound, not         *)
(* created again.                                                          *)
C26_Witness ==
  /\ module = "lke_node_pool" /\ run = 2 /\ pc \in {"update", "failed"}
  /\ loc.pool # 0
  /\ Len(params.tags) = 2 /\ params.tags[1] # params.tags[2]
  /\ remote.pools[PoolAt(Cur)].tags # params.tags
  /\ Cardinality(SameTagSet) = 1

(***************************************************************************)
(* C27: state=update adds the rules that are new                           *)
(***************************************************************************)

RuleLabels(rules) == {rules[i].label : i \in DOMAIN rules}

(* C27: after a finished firewall run with state = update, every desired   *)
(* rule is on the firewall: the rules of each direction hold a rule with   *)
(* the label of every desired rule of that direction, a rule that is new   *)
(* included, also when nothing else changes.                               *)
C27_UpdateAddsNewRules ==
  (module = "firewall" /\ pc = "done" /\ params.state = "update"
   /\ "rules" \in DOMAIN params) =>
    \A d \in Range(Directions) :
      d \in DOMAIN params.rules =>
        RuleLabels(params.rules[d]) \subseteq RuleLabels(remote.rules[d])

(***************************************************************************)
(* C28: state=update amends the remote rules in place                      *)
(***************************************************************************)

AddressFamilies == {"ipv4", "ipv6"}

(* The step writes the rules of an existing firewall with state = update.  *)
WritesAmendedRules ==
  /\ module = "firewall" /\ params.state = "update" /\ remote.exists
  /\ \E k \in (Len(calls) + 1)..Len(calls') :
       calls'[k].op = "update" /\ calls'[k].kind = "rules"

HasFamily(rule, v) ==
  "addresses" \in DOMAIN rule /\ v \in DOMAIN rule.addresses

(* written is remote_rule amended by local_rule: the local value of each   *)
(* field and address family the local rule has, the remote value of each   *)
(* other one the remote rule has.                                          *)
IsAmended(written, local_rule, remote_rule) ==
  /\ \A f \in RuleFields \ {"addresses"} :
       /\ f \in DOMAIN local_rule =>
            f \in DOMAIN written /\ written[f] = local_rule[f]
       /\ (f \notin DOMAIN local_rule /\ f \in DOMAIN remote_rule) =>
            f \in DOMAIN written /\ written[f] = remote_rule[f]
  /\ \A v \in AddressFamilies :
       /\ HasFamily(local_rule, v) =>
            HasFamily(written, v) /\ written.addresses[v] = local_rule.addresses[v]
       /\ (~HasFamily(local_rule, v) /\ HasFamily(remote_rule, v)) =>
            HasFamily(written, v) /\ written.addresses[v] = remote_rule.addresses[v]

(* The written list starts with the remote rules in their order, each kept *)
(* or amended by the local rule of its label.                              *)
AmendedInPlace(written, local_list, remote_list) ==
  /\ Len(written) >= Len(remote_list)
  /\ \A i \in DOMAIN remote_list :
       LET j == LabeledRule(local_list, remote_list[i].label)
       IN IF j = 0 THEN written[i] = remote_list[i]
          ELSE IsAmended(written[i], local_list[j], remote_list[i])

(* C28: when a state = update run writes the rules, the list written has   *)
(* the remote rules in their remote order, a rule the desired rules do not *)
(* name unchanged, a named rule with the desired value of each supplied    *)
(* field and address family and the remote value of each omitted one.      *)
C28_AmendInPlace ==
  [][WritesAmendedRules =>
       \A d \in Range(Directions) :
         AmendedInPlace(remote'.rules[d],
                        FwNormalizeRules(IF "rules" \in DOMAIN params
                                         THEN params.rules ELSE <<>>)[d],
                        remote.rules[d])]_vars

(***************************************************************************)
(* C29: no sub-resource is deleted twice in one run                        *)
(***************************************************************************)

(* C29: the calls of one run hold at most one delete of each remote        *)
(* sub-resource; a device or node deleted to be recreated is not deleted   *)
(* again by the pass over the unused entries.                              *)
C29_NoDoubleDelete ==
  \A i, j \in DOMAIN calls :
    (/\ calls[i].op = "delete" /\ calls[j].op = "delete"
     /\ calls[i].kind = calls[j].kind /\ calls[i].id = calls[j].id) => i = j

(***************************************************************************)
(* C30: the node pools converge                                            *)
(***************************************************************************)

(* The passes of _update_cluster are over and the run has not failed.      *)
LkePassesCompleted == LkePassesDone /\ pc # "failed"

(* The number of node pools of a list with the type and the count.         *)
PoolsLike(pools, t, c) ==
  Cardinality({i \in DOMAIN pools : pools[i].type = t /\ pools[i].count = c})

PoolShapes(pools) == {<<pools[i].type, pools[i].count>> : i \in DOMAIN pools}

PoolDeleted(i) ==
  \E c \in CallsOf("delete", "node_pool") : calls[c].id = loc.existing_pools[i].id

(* C30: after the passes of _update_cluster, without error, the remote     *)
(* node pools and the desired node pools are the same multiset of (type,   *)
(* count); every remote pool the passes started from is bound to exactly   *)
(* one desired pool or deleted, never both, and every desired pool is      *)
(* bound to one remote pool or created.                                    *)
C30_PoolsConverge ==
  LkePassesCompleted =>
    /\ \A s \in PoolShapes(remote.pools) \cup PoolShapes(params.node_pools) :
         PoolsLike(remote.pools, s[1], s[2]) = PoolsLike(params.node_pools, s[1], s[2])
    /\ \A i \in DOMAIN loc.existing_pools :
         /\ Cardinality({b \in loc.bound : b[2] = i}) <= 1
         /\ PoolDeleted(i) <=> ~(\E b \in loc.bound : b[2] = i)
    /\ \A k \in DOMAIN params.node_pools :
         Cardinality({b \in loc.bound : b[1] = k}) <= 1
    /\ Cardinality(CallsOf("create", "node_pool")) =
         Cardinality({k \in DOMAIN params.node_pools :
                        ~(\E b \in loc.bound : b[1] = k)})

(* A finished run that has bound a remote pool, created a pool and deleted *)
(* a pool.                                                                 *)
C30_Witness ==
  /\ LkePassesCompleted /\ pc = "done"
  /\ loc.bound # {}
  /\ \E i \in DOMAIN loc.existing_pools : PoolDeleted(i)
  /\ CallsOf("create", "node_pool") # {}

(***************************************************************************)
(* C31: the attributes of the node pools converge                          *)
(***************************************************************************)

(* The remote pool has the value of every attribute the desired pool       *)
(* supplies.                                                               *)
AttrsAsDesired(remote_pool, pool) ==
  \A a \in PoolAttrNames \cap DOMAIN pool : remote_pool[a] = pool[a]

(* The remote pools created by this run. *)
PoolsCreated ==
  {j \in DOMAIN remote.pools :
     \E c \in CallsOf("create", "node_pool") : calls[c].id = remote.pools[j].id}

(* C31: after the passes of _update_cluster, without error, every remote   *)
(* pool bound to a desired pool has the autoscaler, taints and labels the  *)
(* desired pool supplies, and every desired pool that was not bound has a  *)
(* pool created by the run with its type, its count and the attributes it  *)
(* supplies.                                                               *)
C31_AttrsConverge ==
  LkePassesCompleted =>
    /\ \A b \in loc.bound :
         \A j \in DOMAIN remote.pools :
           remote.pools[j].id = loc.existing_pools[b[2]].id =>
             AttrsAsDesired(remote.pools[j], params.node_pools[b[1]])
    /\ \A k \in DOMAIN params.node_pools :
         (~(\E b \in loc.bound : b[1] = k)) =>
           \E j \in PoolsCreated :
             /\ remote.pools[j].type = params.node_pools[k].type
             /\ remote.pools[j].count = params.node_pools[k].count
             /\ AttrsAsDesired(remote.pools[j], params.node_pools[k])

(***************************************************************************)
(* C32: no desired grant is dropped                                        *)
(***************************************************************************)

(* The desired resource grants that count: of the grants listed for one    *)
(* category and id, the last.                                              *)
DesiredGrantPlaces ==
  IF "resources" \in DOMAIN params.grants
  THEN {j \in DOMAIN params.grants.resources :
          j = Max(ListedAt(params.grants.resources[j].type,
                           params.grants.resources[j].id))}
  ELSE {}

(* C32: the document _update_grants PUTs holds every desired resource      *)
(* grant: for each one an entry of its category with its id and its        *)
(* permission, also when the remote document has no entry for the id.      *)
C32_NoGrantDropped ==
  (module = "user" /\ loc.put_body # <<>>) =>
    \A j \in DesiredGrantPlaces :
      LET g == params.grants.resources[j]
      IN /\ g.type \in DOMAIN loc.put_body
         /\ \E i \in DOMAIN loc.put_body[g.type] :
              /\ loc.put_body[g.type][i].id = g.id
              /\ loc.put_body[g.type][i].permissions = g.permissions

(***************************************************************************)
(* C33: the grants of an unrestricted user                                 *)
(***************************************************************************)

(* The step is _update_grants for a desired user with restricted = false.  *)
UnrestrictedGrantsStep ==
  module = "user" /\ pc = "update_grants" /\ ~params.restricted

(* C33: with restricted = false _update_grants does nothing, whatever      *)
(* grants are supplied: the grant document is neither read nor written, no *)
(* call is issued, the ledger and changed stay as they are and the run     *)
(* goes on to its end without an error.                                    *)
C33_UnrestrictedGrantsIgnored ==
  [][UnrestrictedGrantsStep =>
       /\ calls' = calls
       /\ remote' = remote
       /\ loc' = loc
       /\ results'.actions = results.actions
       /\ results'.changed = results.changed
       /\ results'.msg = results.msg
       /\ pc' = "done"]_vars

(* A finished run for an unrestricted user with a grant supplied that the  *)
(* user does not have.                                                     *)
C33_Witness ==
  /\ module = "user" /\ pc = "done" /\ ~params.restricted
  /\ "grants" \in DOMAIN params /\ "resources" \in DOMAIN params.grants
  /\ \E j \in DOMAIN params.grants.resources :
       \E i \in DOMAIN remote.grants.linode :
         /\ params.grants.resources[j].type = "linode"
         /\ remote.grants.linode[i].id = params.grants.resources[j].id
         /\ remote.grants.linode[i].permissions # params.grants.resources[j].permissions

(***************************************************************************)
(* C34: the number of configs of a NodeBalancer stays bounded              *)
(***************************************************************************)

DesiredConfigCount ==
  IF "configs" \in DOMAIN params THEN Len(params.configs) ELSE 0

(* The run is reconciling the nodes of a config it kept. *)
NbInKeptNodes ==
  /\ module = "nodebalancer"
  /\ \/ pc = "update_configs"
     \/ pc \in {"nodes", "unused_nodes"} /\ loc.ret = "update_configs"

(* C34: in _handle_configs every deletion of a config comes before every   *)
(* creation of one; no step of a run takes the number of remote configs    *)
(* above the larger of the number it had and the number desired, so that   *)
(* it never exceeds max(initial, desired); and the nodes of the configs    *)
(* kept are reconciled only when every config to create has been created.  *)
C34_ConfigCountBound ==
  /\ [](module = "nodebalancer" =>
          \A i, j \in DOMAIN calls :
            (/\ calls[i].op = "create" /\ calls[i].kind = "config"
             /\ calls[j].op = "delete" /\ calls[j].kind = "config") => j < i)
  /\ [](NbInKeptNodes =>
          Cardinality(CallsOf("create", "config")) = Len(loc.to_create))
  /\ [][(module = "nodebalancer" /\ run' = run) =>
          Len(remote'.configs) <= Max({Len(remote.configs), DesiredConfigCount})]_vars

(* A run has deleted a config, created a config and reached the nodes of a *)
(* config it kept.                                                         *)
C34_Witness ==
  /\ NbInKeptNodes /\ pc = "nodes"
  /\ CallsOf("delete", "config") # {}
  /\ CallsOf("create", "config") # {}

(***************************************************************************)
(* domain_record                                                           *)
(*                                                                         *)
(* params : domain, state, type, target and, when supplied, name, service, *)
(*          record_id, ttl_sec.                                            *)
(* remote : domain_exists, records (the records [id, name, type, target,   *)
(*          service, ttl_sec] of the domain in the order the API lists     *)
(*          them), next_id, strict (whether the API refuses a record that  *)
(*          repeats one the domain has).                                   *)
(***************************************************************************)

DR_MUTABLE_FIELDS == {"port", "priority", "protocol", "service", "tag", "ttl_sec", "weight"}

DomainName == "example.org"

(* name.removesuffix("." + domain.domain), for the names of the runs. *)
RemoveDomainSuffix(name) == IF name = "www.example.org" THEN "www" ELSE name

(* target.removesuffix("."), for the targets of the runs. *)
RemoveDotSuffix(target) ==
  IF target = "host.example.org." THEN "host.example.org" ELSE target

DrParam(m, k) == IF k \in DOMAIN m.params THEN m.params[k] ELSE NULL

(* _find_record: the place of the first record of the domain with the      *)
(* name, type and target; 0 for None.                                      *)
dr_find_record(m, name, rtype, target) ==
  FirstIndex({i \in DOMAIN m.remote.records :
                /\ m.remote.records[i].name = RemoveDomainSuffix(name)
                /\ m.remote.records[i].type = rtype
                /\ m.remote.records[i].target = RemoveDotSuffix(target)})

(* DomainRecord(client, record_id, domain.id)._api_get(): the place of the *)
(* record with the id; 0 when the API answers 404.                         *)
DrRecordById(m, record_id) ==
  FirstIndex({i \in DOMAIN m.remote.records : m.remote.records[i].id = record_id})

(* _get_record_from_params: the place of the record, 0 for None. A record  *)
(* id takes precedence over a name; with neither there is no lookup.       *)
dr_get_record_from_params(m) ==
  IF "record_id" \in DOMAIN m.params THEN DrRecordById(m, m.params.record_id)
  ELSE IF "name" \in DOMAIN m.params
  THEN dr_find_record(m, m.params.name, m.params.type, m.params.target)
  ELSE 0

(* The record as the API stores it: the domain is dropped from the end of  *)
(* the name, the dot from the end of the target.                           *)
DrStoredRecord(id, P) ==
  [id |-> id,
   name |-> IF "name" \in DOMAIN P THEN RemoveDomainSuffix(P.name) ELSE "",
   type |-> P.type,
   target |-> RemoveDotSuffix(P.target),
   service |-> IF "service" \in DOMAIN P THEN P.service ELSE NULL,
   ttl_sec |-> IF "ttl_sec" \in DOMAIN P THEN P.ttl_sec ELSE 0]

DrRepeats(m, rec) ==
  \E i \in DOMAIN m.remote.records :
    /\ m.remote.records[i].name = rec.name /\ m.remote.records[i].type = rec.type
    /\ m.remote.records[i].target = rec.target
    /\ m.remote.records[i].service = rec.service

(* domain.record_create(record_type, **params) *)
DrRecordCreate(m, rec) ==
  IF m.remote.strict /\ DrRepeats(m, rec)
  THEN Fail(Call(m, [op |-> "create", kind |-> "record", id |-> 0, arg |-> rec.name]),
            "failed to create domain record")
  ELSE Goto(Call([m EXCEPT !.remote.records = Append(@, rec),
                           !.remote.next_id = @ + 1,
                           !.loc.record = rec.id],
                 [op |-> "create", kind |-> "record", id |-> rec.id, arg |-> rec.name]),
            "update")

(* _create_record: the ledger entry, then the call. *)
dr_create_record(m) ==
  DrRecordCreate(
    register_action(m, [what |-> "Created", kind |-> "record", id |-> 0,
                        arg |-> <<m.params.type, DrParam(m, "name"),
                                  DrParam(m, "service")>>]),
    DrStoredRecord(m.remote.next_id, m.params))

(* _handle_present: whether a record that was not found is created. *)
DrShouldCreate(m) == "name" \in DOMAIN m.params \/ "service" \in DOMAIN m.params

(* _handle_present after the lookup of the record at place i (0: None). *)
DrAfterLookup(m, i) ==
  IF i = 0 /\ "record_id" \in DOMAIN m.params THEN Fail(m, "ApiError 404")
  ELSE IF i = 0 /\ DrShouldCreate(m) THEN dr_create_record(m)
  ELSE Goto([m EXCEPT !.loc.record = m.remote.records[i].id], "update")

(* _handle_present up to _update_record. *)
dr_handle_present(m) ==
  IF ~m.remote.domain_exists THEN Fail(m, "invalid domain specified")
  ELSE DrAfterLookup(m, dr_get_record_from_params(m))

DrAt(m) == CHOOSE i \in DOMAIN m.remote.records : m.remote.records[i].id = m.loc.record

(* _handle_present after _update_record: the results. *)
DrAfterUpdates(m, r, i) ==
  IF r.failed THEN Fail(m, "non-updatable field")
  ELSE [r.m EXCEPT !.remote.records[i].ttl_sec = r.obj.ttl_sec,
                   !.remote.records[i].service = r.obj.service,
                   !.results.record = m.loc.record,
                   !.pc = "done"]

(* _update_record *)
dr_update_record(m) ==
  DrAfterUpdates(m,
                 handle_updates(m, "record",
                                [ttl_sec |-> m.remote.records[DrAt(m)].ttl_sec,
                                 service |-> m.remote.records[DrAt(m)].service],
                                [k \in DOMAIN m.params \cap {"ttl_sec", "service"} |->
                                   m.params[k]],
                                <<"service", "ttl_sec">>, DR_MUTABLE_FIELDS),
                 DrAt(m))

(* record.delete() and its ledger entry. *)
DrDelete(m, i) ==
  register_action(
    Call([m EXCEPT !.remote.records = SelectSeq(@, LAMBDA r : r.id # m.remote.records[i].id),
                   !.results.record = m.remote.records[i].id,
                   !.pc = "done"],
         [op |-> "delete", kind |-> "record", id |-> m.remote.records[i].id,
          arg |-> m.remote.records[i].name]),
    [what |-> "Deleted", kind |-> "record", id |-> m.remote.records[i].id,
     arg |-> m.remote.records[i].name])

DrAbsentAfterLookup(m, i) ==
  IF i = 0 /\ "record_id" \in DOMAIN m.params THEN Fail(m, "ApiError 404")
  ELSE IF i = 0 THEN Goto(m, "done")
  ELSE DrDelete(m, i)

(* _handle_absent *)
dr_handle_absent(m) ==
  IF ~m.remote.domain_exists THEN Fail(m, "invalid domain specified")
  ELSE DrAbsentAfterLookup(m, dr_get_record_from_params(m))

(* ----- domain_record: the runs checked ----- *)

MaxRecords == 2

(* The id of the first record a run creates. *)
DrFirstNewId == MaxRecords + 1

(* How a task names its record: by name, type and target, by the service   *)
(* of an SRV record, or by id.                                             *)
DrIdentities ==
  {[name |-> n, type |-> "A", target |-> "192.0.2.1"] : n \in {"www", "www.example.org"}}
  \cup {[name |-> "mail", type |-> "CNAME", target |-> t] :
          t \in {"host.example.org", "host.example.org."}}
  \cup {[service |-> "sip", type |-> "SRV", target |-> "host.example.org"]}
  \cup {[record_id |-> i, type |-> "A", target |-> "192.0.2.1"] : i \in {1, 9}}

DrRemoteRecords ==
  {[name |-> "www", type |-> "A", target |-> "192.0.2.1", service |-> NULL, ttl_sec |-> 0],
   [name |-> "mail", type |-> "CNAME", target |-> "host.example.org", service |-> NULL,
    ttl_sec |-> 300],
   [name |-> "", type |-> "SRV", target |-> "host.example.org", service |-> "sip",
    ttl_sec |-> 0]}

DrResults == [changed |-> FALSE, actions |-> <<>>, msg |-> NULL, record |-> NULL]

DrNoLoc == [record |-> 0]

InitDomainRecord ==
  /\ module = "domain_record"
  /\ \E ident \in DrIdentities, state \in {"present", "absent"},
        withttl \in BOOLEAN, rl \in SeqsUpTo(DrRemoteRecords, MaxRecords),
        domain_exists \in BOOLEAN, strict \in BOOLEAN :
       /\ params = ident @@ [domain |-> DomainName, state |-> state]
                   @@ (IF withttl THEN [ttl_sec |-> 300] ELSE <<>>)
       /\ (~domain_exists => rl = <<>> /\ ~strict /\ ~withttl)
       /\ remote = [domain_exists |-> domain_exists,
                    records |-> [i \in DOMAIN rl |-> [id |-> i] @@ rl[i]],
                    next_id |-> DrFirstNewId, strict |-> strict]
  /\ results = DrResults
  /\ calls = <<>>
  /\ loc = DrNoLoc
  /\ pc = "start"
  /\ run = 1

DrHandlePresent ==
  /\ module = "domain_record" /\ pc = "start" /\ params.state = "present"
  /\ Commit(dr_handle_present(Cur))

DrUpdateRecord ==
  /\ module = "domain_record" /\ pc = "update"
  /\ Commit(dr_update_record(Cur))

DrHandleAbsent ==
  /\ module = "domain_record" /\ pc = "start" /\ params.state = "absent"
  /\ Commit(dr_handle_absent(Cur))

(* The same task is run a second time, against what the first run left.    *)
DrRunAgain ==
  /\ module = "domain_record" /\ pc = "done" /\ run = 1
  /\ run' = 2
  /\ pc' = "start"
  /\ results' = DrResults
  /\ calls' = <<>>
  /\ loc' = DrNoLoc
  /\ UNCHANGED <<module, params, remote>>

NextDomainRecord ==
  \/ DrHandlePresent
  \/ DrUpdateRecord
  \/ DrHandleAbsent
  \/ DrRunAgain

SpecDomainRecord == InitDomainRecord /\ [][NextDomainRecord]_vars

(***************************************************************************)
(* C35: creating a domain record is idempotent                             *)
(***************************************************************************)

(* The records created since the first run started. *)
DrCreated == {i \in DOMAIN remote.records : remote.records[i].id >= DrFirstNewId}

(* C35: over two consecutive present runs of one task against one domain   *)
(* at most one record is created, whether the task names its record by     *)
(* name, type and target or by the service of an SRV record alone.         *)
C35_CreateOnce ==
  (module = "domain_record" /\ params.state = "present") =>
    Cardinality(DrCreated) <= 1

(***************************************************************************)
(* C36: the new cluster size settles before the run succeeds               *)
(***************************************************************************)

DbResized == module = "database_mysql_v2" /\ "cluster_size" \in loc.updated_fields

(* A re-fetch of the database now shows the new cluster size: the time the *)
(* size needs has passed since the poll for it started.                    *)
DbSizeShown ==
  remote.now - (IF loc.waiting THEN loc.started ELSE remote.now) >= remote.need.size

DbTimeoutMsgs ==
  {"failed to wait for condition: timeout period expired",
   "failed to wait for database status: timeout period expired"}

(* C36: when _update has changed cluster_size, the run waits for the       *)
(* status active first and polls for the size only then; it leaves the     *)
(* poll for the results only when a re-fetch shows the new size, and       *)
(* otherwise only by a timeout, not before the budget of the run is used   *)
(* up; it is done only after both waits.                                   *)
C36_ClusterSizeSettles ==
  /\ []((module = "database_mysql_v2" /\ pc = "poll_size") =>
          /\ "cluster_size" \in loc.updated_fields
          /\ loc.waits >= 1)
  /\ []((DbResized /\ pc \in {"populate", "done"}) => loc.waits = 2)
  /\ [][(DbResized /\ pc = "poll_size" /\ pc' # "poll_size") =>
          \/ pc' = "populate" /\ DbSizeShown
          \/ /\ pc' = "failed" /\ results'.msg \in DbTimeoutMsgs
             /\ ~DbSizeShown
             /\ remote.now >= params.wait_timeout]_vars
  /\ [][(DbResized /\ pc = "wait_active" /\ pc' # "wait_active") =>
          \/ pc' = "poll_size"
          \/ pc' = "failed" /\ results'.msg \in DbTimeoutMsgs]_vars

(* A database was resized, became active after a wait and showed its new   *)
(* size after a poll that slept.                                           *)
C36_Witness ==
  /\ DbResized /\ pc = "done"
  /\ remote.need.active > 0 /\ remote.need.size > 0
  /\ remote.slept >= remote.need.active + remote.need.size

(* A resized database whose new size did not show in time.                 *)
C36_TimedOut ==
  /\ DbResized /\ pc = "failed" /\ loc.waits = 1
  /\ results.msg = "failed to wait for condition: timeout period expired"

====
